---------------------------- MODULE Spec2Model ----------------------------
(***************************************************************************)
(* A model of the TuneScape audio engine (class AudioEngine): tempo        *)
(* aggregation (analyzeBpm), the peak-clustering tempo estimator,          *)
(* loop-boundary detection (detectBoundaries) and the mixdown scheduler    *)
(* (process, renderLoopingTrack, renderMusicTrack).                        *)
(*                                                                         *)
(* Numbers.  The engine computes on IEEE doubles.  The model computes on   *)
(* exact rationals <<n, d>> (d > 0, lowest terms) and on integers in a     *)
(* stated unit, so a value of the model is the real number the double      *)
(* approximates.  Signals are sequences of integer sample levels.          *)
(***************************************************************************)
EXTENDS Integers, Sequences, FiniteSets, TLC

VARIABLES
    \* ---- detectBoundaries (one call) ----
    bdPc,        \* "idle" | "call" | "done"
    bdSig,       \* the buffer handed to detectBoundaries
    bdOut,       \* the LoopBoundaries value returned
    \* ---- analyzeBpm (one call) ----
    bpmPc,       \* "idle" | "passes" | "aggregate" | "done"
    bpmMode,     \* DetectionMode: "fast" | "accurate"
    bpmHop,      \* number of estimator passes already run
    rawResults,  \* the array rawResults
    bpmSupplied, \* history: the accepted candidates in the order pushed
    algorithmsUsed,
    bpmInfo,     \* the estimate returned
    \* ---- detectBpmByPeakClustering, called once per hop size ----
    pkPc,        \* "idle" | "passes" | "done"
    pkSig,       \* the click track analysed
    pkTempos,    \* the tempo returned for each hop size so far
    \* ---- process (one call) ----
    prPc,        \* position in process(): "idle", "start", ..., "done", "threw"
    focus,       \* f: the foundation track's metadata and buffer
    music,       \* m: the music track's metadata and buffer
    opts,        \* o: the ProcessingOptions
    rate,        \* the tempo adjustment rate
    musicBuffer, \* the buffer handed to renderMusicTrack
    ctx,         \* the OfflineAudioContext
    sched,       \* the source/gain node pairs created so far, with their calls
    cur,         \* the loop variable cur of the render function running
    bounds,      \* stretchedBounds
    progressLog, \* the values passed to the progress callback, in order
    rendered,    \* the AudioBuffer startRendering resolved to
    \* ---- timeStretch (one call, with the sample data) ----
    tsPc,        \* "idle" | "call" | "done" | "threw"
    tsIn,        \* the AudioBuffer handed to timeStretch
    tsRate,      \* the rate handed to timeStretch
    tsOut,       \* the AudioBuffer returned
    \* ---- decodeFile (one call) ----
    dcPc,        \* "idle" | "decode" | "tempo" | "frequency" | "done"
    dcFile,      \* the File, the mode, and what decoding and the analyser yield
    dcMeta,      \* the AudioMetadata being built and returned
    \* ---- audioBufferToLossless (one call) ----
    enPc,        \* "idle" | "header" | "samples" | "done" | "threw"
    enBuf,       \* the rendered AudioBuffer
    enFormat,    \* the ExportFormat requested
    enBytes,     \* the bytes written to the ArrayBuffer so far (offset = their number)
    enPos,       \* the loop variable pos
    enBlob,      \* the Blob returned: [bytes, type]
    \* ---- detectBpmByAutocorrelation inside analyzeBpm (accurate mode) ----
    acPc,        \* "idle" | "envelope" | "lags" | "aggregate" | "done"
    acSig,       \* the buffer analysed
    acEnv,       \* the onset envelope env
    acLag,       \* the loop variable lag
    acMaxAuto,   \* maxAuto
    acBestLag,   \* bestLag
    acRaw,       \* rawResults of the analyzeBpm call
    acInfo,      \* the estimate analyzeBpm returns
    \* ---- the grain loop of timeStretch (indices only) ----
    glPc,        \* "idle" | "call" | "channel" | "grains" | "done" | "threw"
    glIn,        \* sampleRate, length and channels of the buffer, and the rate
    glChannel,   \* the loop variable channel
    glOutPos,    \* outPos
    glPasses,    \* passes of the while loop made for this channel
    glRead,      \* <<first, last>> index read from inputData by the last pass
    glWrite,     \* <<first, last>> index written to outputData by the last pass
    \* ---- App: detection mode, music track, analyses in flight ----
    apPc,        \* "idle" | "mounted"
    apMode,      \* the state detectionMode
    apTrack,     \* the state musicTrack
    apPending,   \* the asynchronous decodes and re-analyses not yet resolved
    apStarted,   \* how many of them were started
    apAnalyzing  \* the state isAnalyzing

bdVars == <<bdPc, bdSig, bdOut>>
bpmVars == <<bpmPc, bpmMode, bpmHop, rawResults, bpmSupplied, algorithmsUsed, bpmInfo>>
pkVars == <<pkPc, pkSig, pkTempos>>
prVars == <<prPc, focus, music, opts, rate, musicBuffer, ctx, sched, cur, bounds,
            progressLog, rendered>>
tsVars == <<tsPc, tsIn, tsRate, tsOut>>
dcVars == <<dcPc, dcFile, dcMeta>>
enVars == <<enPc, enBuf, enFormat, enBytes, enPos, enBlob>>
acVars == <<acPc, acSig, acEnv, acLag, acMaxAuto, acBestLag, acRaw, acInfo>>
glVars == <<glPc, glIn, glChannel, glOutPos, glPasses, glRead, glWrite>>
apVars == <<apPc, apMode, apTrack, apPending, apStarted, apAnalyzing>>
vars == <<bdVars, bpmVars, pkVars, prVars, tsVars, dcVars, enVars, acVars, glVars, apVars>>
\* the variables a component leaves alone
notBd == <<bpmVars, pkVars, prVars, tsVars, dcVars, enVars, acVars, glVars, apVars>>
notBpm == <<bdVars, pkVars, prVars, tsVars, dcVars, enVars, acVars, glVars, apVars>>
notPk == <<bdVars, bpmVars, prVars, tsVars, dcVars, enVars, acVars, glVars, apVars>>
notPr == <<bdVars, bpmVars, pkVars, tsVars, dcVars, enVars, acVars, glVars, apVars>>
notTs == <<bdVars, bpmVars, pkVars, prVars, dcVars, enVars, acVars, glVars, apVars>>
notDc == <<bdVars, bpmVars, pkVars, prVars, tsVars, enVars, acVars, glVars, apVars>>
notEn == <<bdVars, bpmVars, pkVars, prVars, tsVars, dcVars, acVars, glVars, apVars>>
firstVars == <<bdVars, bpmVars, pkVars, prVars, tsVars, dcVars, enVars>>
notAc == <<firstVars, glVars, apVars>>
notGl == <<firstVars, acVars, apVars>>
notAp == <<firstVars, acVars, glVars>>

---------------------------------------------------------------------------
(* Exact rationals                                                         *)

RECURSIVE GCD(_, _)
GCD(a, b) == IF b = 0 THEN a ELSE GCD(b, a % b)

Abs(x) == IF x < 0 THEN -x ELSE x

Rat(n, d) ==
    LET s == IF d < 0 THEN -1 ELSE 1
        g == GCD(Abs(n), Abs(d))
    IN  <<(s * n) \div g, (s * d) \div g>>

RInt(n) == <<n, 1>>
LCM(a, b) == (a \div GCD(a, b)) * b
RAdd(a, b) ==
    LET d == LCM(a[2], b[2])
    IN  Rat(a[1] * (d \div a[2]) + b[1] * (d \div b[2]), d)
RNeg(a) == <<-a[1], a[2]>>
RSub(a, b) == RAdd(a, RNeg(b))
RMul(a, b) ==
    LET x == Rat(a[1], b[2])
        y == Rat(b[1], a[2])
    IN  Rat(x[1] * y[1], x[2] * y[2])
RDiv(a, b) == RMul(a, IF b[1] < 0 THEN <<-b[2], -b[1]>> ELSE <<b[2], b[1]>>)
RLt(a, b) ==
    LET d == LCM(a[2], b[2])
    IN  a[1] * (d \div a[2]) < b[1] * (d \div b[2])
RLe(a, b) == ~RLt(b, a)
RMin(a, b) == IF RLe(a, b) THEN a ELSE b
RMax(a, b) == IF RLe(a, b) THEN b ELSE a
RAbs(a) == <<Abs(a[1]), a[2]>>
\* Math.floor(a)
RFloor(a) == a[1] \div a[2]
\* Math.round(a): the nearest integer, a tie going up
RRound(a) == (2 * a[1] + a[2]) \div (2 * a[2])
RZero == <<0, 1>>

---------------------------------------------------------------------------
(* Signals: an AudioBuffer's channel 0 as runs of constant sample level.    *)
(* A level is the sample value in units of 1/LevelScale of full scale.     *)

RECURSIVE RunsLength(_)
RunsLength(runs) ==
    IF runs = <<>> THEN 0 ELSE Head(runs).len + RunsLength(Tail(runs))

RECURSIVE RunsData(_)
RunsData(runs) ==
    IF runs = <<>> THEN <<>>
    ELSE [i \in 1..Head(runs).len |-> Head(runs).level] \o RunsData(Tail(runs))

\* AudioBuffer.duration = length / sampleRate, in seconds
BufDuration(length, sampleRate) == Rat(length, sampleRate)

---------------------------------------------------------------------------
(* detectBoundaries                                                        *)

\* Math.floor(sampleRate * 0.1)
ChunkSize(sampleRate) == sampleRate \div 10

\* sum of data[j]^2 for j in from..to (1-based, inclusive)
RECURSIVE SumSquares(_, _, _)
SumSquares(data, from, to) ==
    IF from > to THEN 0
    ELSE data[from] * data[from] + SumSquares(data, from + 1, to)

\* One entry per chunk: the chunk's mean square <<sum, count>>; the code
\* stores its square root, which orders the chunks the same way.
RmsValues(data, chunkSize) ==
    LET n == Len(data)
        nChunks == (n + chunkSize - 1) \div chunkSize
    IN  [k \in 1..nChunks |->
            LET i == (k - 1) * chunkSize
                end == IF i + chunkSize < n THEN i + chunkSize ELSE n
            IN  <<SumSquares(data, i + 1, end), end - i>>]

RmsLe(a, b) == a[1] * b[2] <= b[1] * a[2]

\* a scan that also accepts a chunk equal to the threshold
RmsGtOrEqual(a, b) == a[1] * b[2] >= b[1] * a[2]

\* rmsValues[i] > threshold
RmsGt(a, b) == a[1] * b[2] > b[1] * a[2]

\* [...rmsValues].sort((a, b) => a - b): the ascending arrangement of s.
\* Its k-th entry is the value v of s with fewer than k entries below v
\* and at least k entries not above v.
SortRms(s) ==
    LET vals == {s[i] : i \in 1..Len(s)}
        below == [v \in vals |-> Cardinality({i \in 1..Len(s) : ~RmsLe(v, s[i])})]
        upTo == [v \in vals |-> Cardinality({i \in 1..Len(s) : RmsLe(s[i], v)})]
    IN  [k \in 1..Len(s) |-> CHOOSE v \in vals : below[v] < k /\ k <= upTo[v]]

\* for (i = 0; i < n; i++) if (rms[i] > thr) { iEnd = i; break; }
\* the first 1-based index in lo..hi whose RMS exceeds thr, else 0
RECURSIVE FirstAboveIn(_, _, _, _)
FirstAboveIn(rms, thr, lo, hi) ==
    IF lo > hi THEN 0
    ELSE IF lo = hi THEN (IF RmsGt(rms[lo], thr) THEN lo ELSE 0)
    ELSE LET mid == (lo + hi) \div 2
             l == FirstAboveIn(rms, thr, lo, mid)
         IN  IF l # 0 THEN l ELSE FirstAboveIn(rms, thr, mid + 1, hi)

\* for (i = n - 1; i >= 0; i--) if (rms[i] > thr) { oStart = i; break; }
RECURSIVE LastAboveIn(_, _, _, _)
LastAboveIn(rms, thr, lo, hi) ==
    IF lo > hi THEN 0
    ELSE IF lo = hi THEN (IF RmsGt(rms[lo], thr) THEN lo ELSE 0)
    ELSE LET mid == (lo + hi) \div 2
             r == LastAboveIn(rms, thr, mid + 1, hi)
         IN  IF r # 0 THEN r ELSE LastAboveIn(rms, thr, lo, mid)

\* 0-based chunk index, -1 when no chunk exceeds the threshold
FirstAbove(rms, hasThr, thr) ==
    IF hasThr THEN FirstAboveIn(rms, thr, 1, Len(rms)) - 1 ELSE -1

LastAbove(rms, hasThr, thr) ==
    IF hasThr THEN LastAboveIn(rms, thr, 1, Len(rms)) - 1 ELSE -1

\* a return statement that forgets the failure defaults
BoundsResultUnguarded(introEnd, outroStart, detected, duration) ==
    [introEnd |-> introEnd, outroStart |-> outroStart, detected |-> detected]

\* the value returned when detection succeeded / failed
BoundsResult(introEnd, outroStart, detected, duration) ==
    [introEnd   |-> IF detected THEN introEnd ELSE RZero,
     outroStart |-> IF detected THEN outroStart ELSE duration,
     detected   |-> detected]

Detected(introEnd, outroStart, duration) ==
    RLt(introEnd, outroStart) /\ RLt(RZero, introEnd) /\ RLt(outroStart, duration)

detectBoundaries(data, sampleRate) ==
    LET duration == BufDuration(Len(data), sampleRate)
        rmsValues == RmsValues(data, ChunkSize(sampleRate))
        sortedRms == SortRms(rmsValues)
        \* sortedRms[Math.floor(sortedRms.length * 0.6)]: undefined for an
        \* empty list, and every comparison with undefined is false
        hasThr == Len(rmsValues) > 0
        threshold == IF hasThr THEN sortedRms[((Len(rmsValues) * 6) \div 10) + 1]
                     ELSE <<0, 1>>
        iEnd == FirstAbove(rmsValues, hasThr, threshold)
        oStart == LastAbove(rmsValues, hasThr, threshold)
        introEnd == RMin(duration, Rat(iEnd + 100, 10))
        outroStart == RMax(RZero, Rat(oStart - 100, 10))
        detected == Detected(introEnd, outroStart, duration)
    IN  BoundsResult(introEnd, outroStart, detected, duration)

---------------------------------------------------------------------------
(* analyzeBpm: acceptance of the estimator passes and the aggregation.     *)
(* Tempos are rationals in BPM.                                            *)

\* Math.round(x * 10) / 10
Round1(x) == Rat(RRound(RMul(x, RInt(10))), 10)

\* fast mode: tempo > 40 && tempo < 300
AcceptFast(tempo) == RLt(RInt(40), tempo) /\ RLt(tempo, RInt(300))
\* an acceptance range that ends below 200
AcceptAccurateNarrow(bpm) == RLt(RInt(40), bpm) /\ RLt(bpm, RInt(200))
\* accurate mode: bpm > 40 && bpm < 250
AcceptAccurate(bpm) == RLt(RInt(40), bpm) /\ RLt(bpm, RInt(250))

RECURSIVE InsertAsc(_, _)
InsertAsc(x, s) ==
    IF s = <<>> THEN <<x>>
    ELSE IF RLe(x, Head(s)) THEN <<x>> \o s
    ELSE <<Head(s)>> \o InsertAsc(x, Tail(s))

\* a sort call that was left out: the array stays in push order
SortAscOmitted(s) == s

\* rawResults.sort((a, b) => a - b)
RECURSIVE SortAsc(_)
SortAsc(s) == IF s = <<>> THEN <<>> ELSE InsertAsc(Head(s), SortAsc(Tail(s)))

\* rawResults[Math.floor(rawResults.length * 0.25)], 1-based here
Q1Of(sorted) == sorted[(Len(sorted) \div 4) + 1]
\* rawResults[Math.floor(rawResults.length * 0.75)]
Q3Of(sorted) == sorted[((Len(sorted) * 3) \div 4) + 1]

\* a filter that keeps only what lies strictly between the quartiles
TukeyFilterStrict(sorted) ==
    SelectSeq(sorted, LAMBDA t : RLt(Q1Of(sorted), t) /\ RLt(t, Q3Of(sorted)))

\* iqr === 0 ? rawResults : rawResults.filter(t => t >= q1 - 1.5*iqr && t <= q3 + 1.5*iqr)
TukeyFilter(sorted) ==
    LET q1 == Q1Of(sorted)
        q3 == Q3Of(sorted)
        iqr == RSub(q3, q1)
        lo == RSub(q1, RMul(Rat(3, 2), iqr))
        hi == RAdd(q3, RMul(Rat(3, 2), iqr))
    IN  IF iqr = RZero THEN sorted
        ELSE SelectSeq(sorted, LAMBDA t : RLe(lo, t) /\ RLe(t, hi))

\* filteredPasses[Math.floor(filteredPasses.length / 2)]
MedianOf(filtered) == filtered[(Len(filtered) \div 2) + 1]

RECURSIVE RSum(_)
RSum(s) == IF s = <<>> THEN RZero ELSE RAdd(Head(s), RSum(Tail(s)))

\* reduce((a, b) => a + b, 0) / (length || 1)
MeanOf(filtered) ==
    RDiv(RSum(filtered), RInt(IF Len(filtered) = 0 THEN 1 ELSE Len(filtered)))

\* reduce((a, b) => a + (b - mean)^2, 0) / (length || 1)
VarianceOf(filtered) ==
    LET mean == MeanOf(filtered)
        sq == [i \in 1..Len(filtered) |->
                 RMul(RSub(filtered[i], mean), RSub(filtered[i], mean))]
    IN  RDiv(RSum(sq), RInt(IF Len(filtered) = 0 THEN 1 ELSE Len(filtered)))

\* the largest r with r * r <= x, for x >= 0
RECURSIVE ISqrtIn(_, _, _)
ISqrtIn(x, lo, hi) ==
    IF lo >= hi THEN lo
    ELSE LET mid == (lo + hi + 1) \div 2
         IN  IF mid * mid <= x THEN ISqrtIn(x, mid, hi) ELSE ISqrtIn(x, lo, mid - 1)
ISqrt(x) == ISqrtIn(x, 0, 46340)

\* Math.round(Math.sqrt(variance) * 100) / 100, as a rational: the k with
\* (2k - 1)^2 <= 40000 * variance < (2k + 1)^2, over 100
StdDevRounded(variance) ==
    LET q == variance[1] \div variance[2]
        r == variance[1] % variance[2]
        x == 40000 * q + (40000 * r) \div variance[2]
    IN  Rat((ISqrt(x) + 1) \div 2, 100)

\* stdDev >= 10
StdDevAtLeast10(variance) == RLe(RInt(100), variance)

\* let confidence = mode === 'accurate' ? 'high' : 'medium';
\* if (stdDev >= 10 || (mode === 'fast' && filteredPasses.length < 3)) confidence = 'low';
ConfidenceOf(mode, variance, nFiltered) ==
    IF StdDevAtLeast10(variance) \/ (mode = "fast" /\ nFiltered < 3) THEN "low"
    ELSE IF mode = "accurate" THEN "high" ELSE "medium"

\* a correction whose halving loop is missing
HalveOmitted(x) == x

\* while (corrected > 200) corrected /= 2
RECURSIVE HalveWhile(_)
HalveWhile(x) == IF RLt(RInt(200), x) THEN HalveWhile(RDiv(x, RInt(2))) ELSE x

\* while (corrected < 60) corrected *= 2
RECURSIVE DoubleWhile(_)
DoubleWhile(x) == IF RLt(x, RInt(60)) THEN DoubleWhile(RMul(x, RInt(2))) ELSE x

OctaveCorrect(medianBpm) == DoubleWhile(HalveWhile(medianBpm))

\* the number of iterations the two loops run on medianBpm
RECURSIVE HalveCount(_)
HalveCount(x) == IF RLt(RInt(200), x) THEN 1 + HalveCount(RDiv(x, RInt(2))) ELSE 0
RECURSIVE DoubleCount(_)
DoubleCount(x) == IF RLt(x, RInt(60)) THEN 1 + DoubleCount(RMul(x, RInt(2))) ELSE 0

RECURSIVE Dedup(_)
Dedup(s) ==
    IF s = <<>> THEN <<>>
    ELSE LET front == Dedup(SubSeq(s, 1, Len(s) - 1))
             x == s[Len(s)]
         IN  IF \E i \in 1..Len(front) : front[i] = x THEN front ELSE Append(front, x)

\* alternate candidates kept up to 250 instead of 220
CandidatesOfWide(fc) ==
    LET all == << Round1(RDiv(fc, RInt(2))),
                  Round1(RMul(fc, Rat(3, 2))),
                  Round1(RMul(fc, RInt(2))) >>
        kept == SelectSeq(all, LAMBDA c :
                    /\ RLe(RInt(40), c)
                    /\ RLe(c, RInt(250))
                    /\ RLt(RInt(2), RAbs(RSub(c, fc))))
    IN  Dedup(kept)

\* the alternate candidates of finalCorrected, in the order computed
CandidatesOf(fc) ==
    LET all == << Round1(RDiv(fc, RInt(2))),
                  Round1(RMul(fc, Rat(3, 2))),
                  Round1(RMul(fc, RInt(2))) >>
        kept == SelectSeq(all, LAMBDA c :
                    /\ RLe(RInt(40), c)
                    /\ RLe(c, RInt(220))
                    /\ RLt(RInt(2), RAbs(RSub(c, fc))))
    IN  Dedup(kept)

\* a fallback that reports medium confidence
FallbackEstimateMedium(mode) ==
    [raw |-> RInt(120), corrected |-> RInt(120), candidates |-> <<>>,
     stdDev |-> RZero, confidence |-> "medium", algorithmsUsed |-> <<"Fallback">>,
     allPasses |-> <<>>, filteredPasses |-> <<>>, modeUsed |-> mode]

\* the estimate returned when no candidate was accepted
FallbackEstimate(mode) ==
    [raw |-> RInt(120), corrected |-> RInt(120), candidates |-> <<>>,
     stdDev |-> RZero, confidence |-> "low", algorithmsUsed |-> <<"Fallback">>,
     allPasses |-> <<>>, filteredPasses |-> <<>>, modeUsed |-> mode]

\* the number NaN, which Math.round returns for an undefined median
NaN == <<0, 0>>

\* the aggregation of a non-empty candidate array (in push order)
AggregateEstimate(raw, mode, algos) ==
    LET sorted == SortAsc(raw)
        filteredPasses == TukeyFilter(sorted)
        variance == VarianceOf(filteredPasses)
        confidence == ConfidenceOf(mode, variance, Len(filteredPasses))
    IN  IF filteredPasses = <<>>
        THEN \* medianBpm is undefined: both loop conditions are false, the
             \* roundings give NaN and no candidate passes the filter
             [raw |-> NaN, corrected |-> NaN, candidates |-> <<>>,
              stdDev |-> StdDevRounded(variance), confidence |-> confidence,
              algorithmsUsed |-> algos, allPasses |-> sorted,
              filteredPasses |-> filteredPasses, modeUsed |-> mode]
        ELSE LET medianBpm == MedianOf(filteredPasses)
                 corrected == OctaveCorrect(medianBpm)
                 finalCorrected == Round1(corrected)
             IN  [raw |-> Round1(medianBpm), corrected |-> finalCorrected,
                  candidates |-> CandidatesOf(finalCorrected),
                  stdDev |-> StdDevRounded(variance), confidence |-> confidence,
                  algorithmsUsed |-> algos, allPasses |-> sorted,
                  filteredPasses |-> filteredPasses, modeUsed |-> mode]

---------------------------------------------------------------------------
(* Specification SpecBpm: one call of analyzeBpm.  An estimator pass is    *)
(* represented by the tempo it returns: the fast estimator returns 0 or    *)
(* 60 / avgDiff, the accurate one 6000 / bestLag with bestLag in 30..100.  *)

\* the hop sizes of the fast mode, in milliseconds
HopSizesMs == <<30, 50, 80, 100, 120, 150>>

\* tempos a fast pass may return, in hundredths of a BPM
PassTempos == {0, 4004, 5996, 12000, 20006, 29996}
MinLag == 30
MaxLag == 100

NoEstimate == [raw |-> RZero, corrected |-> RZero, candidates |-> <<>>,
     stdDev |-> RZero, confidence |-> "none", algorithmsUsed |-> <<>>,
     allPasses |-> <<>>, filteredPasses |-> <<>>, modeUsed |-> "none"]

InitBpm ==
    /\ bpmPc = "passes"
    /\ bpmMode \in {"fast", "accurate"}
    /\ bpmHop = 0
    /\ rawResults = <<>>
    /\ bpmSupplied = <<>>
    /\ algorithmsUsed = <<>>
    /\ bpmInfo = NoEstimate

\* one iteration of: for (const hop of hopSizes) { ... }
FastPass ==
    /\ bpmPc = "passes" /\ bpmMode = "fast" /\ bpmHop < Len(HopSizesMs)
    /\ \E h \in PassTempos :
          LET tempo == Rat(h, 100)
              push == AcceptFast(tempo)
          IN  /\ rawResults' = IF push THEN Append(rawResults, Round1(tempo)) ELSE rawResults
              /\ bpmSupplied' = IF push THEN Append(bpmSupplied, Round1(tempo)) ELSE bpmSupplied
    /\ bpmHop' = bpmHop + 1
    /\ UNCHANGED <<bpmPc, bpmMode, algorithmsUsed, bpmInfo>>
    /\ UNCHANGED notBpm

FastPassesDone ==
    /\ bpmPc = "passes" /\ bpmMode = "fast" /\ bpmHop = Len(HopSizesMs)
    /\ algorithmsUsed' = <<"Peak Clustering">>
    /\ bpmPc' = "aggregate"
    /\ UNCHANGED <<bpmMode, bpmHop, rawResults, bpmSupplied, bpmInfo>>
    /\ UNCHANGED notBpm

AccuratePass ==
    /\ bpmPc = "passes" /\ bpmMode = "accurate"
    /\ \E bestLag \in MinLag..MaxLag :
          LET bpm == Rat(60 * 100, bestLag)
              push == AcceptAccurate(bpm)
          IN  /\ rawResults' = IF push THEN Append(rawResults, bpm) ELSE rawResults
              /\ bpmSupplied' = IF push THEN Append(bpmSupplied, bpm) ELSE bpmSupplied
    /\ algorithmsUsed' = <<"Full-Track Autocorrelation">>
    /\ bpmPc' = "aggregate"
    /\ UNCHANGED <<bpmMode, bpmHop, bpmInfo>>
    /\ UNCHANGED notBpm

\* if (rawResults.length === 0) return { raw: 120, ... }
ReturnFallback ==
    /\ bpmPc = "aggregate" /\ rawResults = <<>>
    /\ bpmInfo' = FallbackEstimate(bpmMode)
    /\ bpmPc' = "done"
    /\ UNCHANGED <<bpmMode, bpmHop, rawResults, bpmSupplied, algorithmsUsed>>
    /\ UNCHANGED notBpm

ReturnAggregate ==
    /\ bpmPc = "aggregate" /\ rawResults # <<>>
    /\ bpmInfo' = AggregateEstimate(rawResults, bpmMode, algorithmsUsed)
    /\ rawResults' = SortAsc(rawResults)
    /\ bpmPc' = "done"
    /\ UNCHANGED <<bpmMode, bpmHop, bpmSupplied, algorithmsUsed>>
    /\ UNCHANGED notBpm

NextBpm ==
    \/ FastPass
    \/ FastPassesDone
    \/ AccuratePass
    \/ ReturnFallback
    \/ ReturnAggregate


---------------------------------------------------------------------------
(* detectBpmByPeakClustering.  Sample values are in hundredths of full     *)
(* scale; a peak is kept as the sample index i of its block, its time      *)
(* being i / sampleRate.                                                   *)

\* Math.floor(sampleRate * hopSec), the hop given in milliseconds
HopSize(sampleRate, hopMs) == (sampleRate * hopMs) \div 1000

\* Math.max(1, Math.floor(data.length / 3000))
PeakStep(length) == IF length \div 3000 > 1 THEN length \div 3000 ELSE 1

\* max > 0.15, max being the largest |data[i + j]| over j = 0, step, 2 step, ...
\* with j < hopSize and i + j < data.length
BlockLoud(data, i, hopSize, step) ==
    \E j \in 0..(hopSize - 1) :
        j % step = 0 /\ i + j < Len(data) /\ Abs(data[i + j + 1]) > 15

\* the block starts i = 0, hopSize, 2 hopSize, ... < data.length of the loud blocks
PeaksOf(data, hopSize, step) ==
    LET nBlocks == (Len(data) + hopSize - 1) \div hopSize
        starts == [k \in 1..nBlocks |-> (k - 1) * hopSize]
    IN  SelectSeq(starts, LAMBDA i : BlockLoud(data, i, hopSize, step))

\* d > 0.2 && d < 2.0 for d = dSamples / sampleRate
PlausibleDiff(dSamples, sampleRate) ==
    5 * dSamples > sampleRate /\ dSamples < 2 * sampleRate

\* the kept differences peaks[i] - peaks[i - 1], in samples
DiffsOf(peaks, sampleRate) ==
    LET all == [i \in 1..(Len(peaks) - 1) |-> peaks[i + 1] - peaks[i]]
    IN  SelectSeq(all, LAMBDA d : PlausibleDiff(d, sampleRate))

RECURSIVE InsertInt(_, _)
InsertInt(x, s) ==
    IF s = <<>> THEN <<x>>
    ELSE IF x <= Head(s) THEN <<x>> \o s
    ELSE <<Head(s)>> \o InsertInt(x, Tail(s))

\* diffs.sort(): the default sort orders the numbers as strings; for
\* numbers in (0.2, 2.0), all written as d.ddd, that is their numeric order
RECURSIVE SortDiffs(_)
SortDiffs(s) == IF s = <<>> THEN <<>> ELSE InsertInt(Head(s), SortDiffs(Tail(s)))

\* diffs.sort()[Math.floor(diffs.length / 2)]
AvgDiffOf(diffs) == SortDiffs(diffs)[(Len(diffs) \div 2) + 1]

\* the tempo returned, 0 when there are too few peaks or no kept difference
detectBpmByPeakClustering(data, sampleRate, hopMs) ==
    LET hopSize == HopSize(sampleRate, hopMs)
        peaks == PeaksOf(data, hopSize, PeakStep(Len(data)))
        diffs == DiffsOf(peaks, sampleRate)
    IN  IF Len(peaks) < 5 THEN RZero
        ELSE IF Len(diffs) = 0 THEN RZero
        ELSE Rat(60 * sampleRate, AvgDiffOf(diffs))

---------------------------------------------------------------------------
(* Specification SpecPeak: the six passes of the fast mode over a click    *)
(* track: clicks of `width` samples and amplitude `amp`, one every         *)
(* `period` samples from sample `phase` on.                                *)

MaxClicks == 7
PeakSampleRate == 100
ClickPeriods == {40, 50}
ClickWidths == {1, 2}
ClickAmps == {15, 16, 100}
ClickPhases == {0, 1, 2, 7, 24, 49}

ClickData(sig) ==
    [i \in 1..sig.length |->
        IF (i - 1) >= sig.phase /\ ((i - 1) - sig.phase) % sig.period < sig.width
        THEN sig.amp ELSE 0]

InitPeak ==
    /\ pkPc = "passes"
    /\ \E n \in 4..MaxClicks, period \in ClickPeriods, phase \in ClickPhases,
          width \in ClickWidths, amp \in ClickAmps :
          pkSig = [sampleRate |-> PeakSampleRate, period |-> period, phase |-> phase,
                   width |-> width, amp |-> amp, clicks |-> n,
                   length |-> phase + n * period]
    /\ pkTempos = <<>>

\* const tempo = this.detectBpmByPeakClustering(data, sampleRate, hop)
PeakPass ==
    /\ pkPc = "passes" /\ Len(pkTempos) < Len(HopSizesMs)
    /\ pkTempos' = Append(pkTempos,
          detectBpmByPeakClustering(ClickData(pkSig), pkSig.sampleRate,
                                    HopSizesMs[Len(pkTempos) + 1]))
    /\ UNCHANGED <<pkPc, pkSig>>
    /\ UNCHANGED notPk

PeakPassesDone ==
    /\ pkPc = "passes" /\ Len(pkTempos) = Len(HopSizesMs)
    /\ pkPc' = "done"
    /\ UNCHANGED <<pkSig, pkTempos>>
    /\ UNCHANGED notPk

NextPeak == PeakPass \/ PeakPassesDone

---------------------------------------------------------------------------
(* The Web Audio objects process() drives.  Times are rationals in         *)
(* seconds.  A node is one AudioBufferSourceNode with the GainNode it      *)
(* feeds; it records the calls made on the pair.  A call is                *)
(*   [op |-> "set",   t, v]             gain.setValueAtTime(v, t)          *)
(*   [op |-> "ramp",  t, v]             gain.linearRampToValueAtTime(v, t) *)
(*   [op |-> "start", t, offset, dur, hasDur]   src.start(t, offset, dur)  *)
(*   [op |-> "stop",  t]                src.stop(t)                        *)
(* Each of these throws a RangeError when a time it is given is negative;  *)
(* the calls made before the throw stay scheduled.                         *)

SetCall(v, t) == [op |-> "set", t |-> t, v |-> v, offset |-> RZero, dur |-> RZero, hasDur |-> FALSE]
RampCall(v, t) == [op |-> "ramp", t |-> t, v |-> v, offset |-> RZero, dur |-> RZero, hasDur |-> FALSE]
StartCall(t, offset) == [op |-> "start", t |-> t, v |-> RZero, offset |-> offset, dur |-> RZero, hasDur |-> FALSE]
StartDurCall(t, offset, dur) == [op |-> "start", t |-> t, v |-> RZero, offset |-> offset, dur |-> dur, hasDur |-> TRUE]
StopCall(t) == [op |-> "stop", t |-> t, v |-> RZero, offset |-> RZero, dur |-> RZero, hasDur |-> FALSE]

\* the call throws a RangeError
CallThrows(c) ==
    \/ RLt(c.t, RZero)
    \/ c.op = "start" /\ (RLt(c.offset, RZero) \/ (c.hasDur /\ RLt(c.dur, RZero)))

\* the number of calls of the sequence made before one throws
CallsMade(calls) ==
    LET bad == {i \in 1..Len(calls) : CallThrows(calls[i])}
    IN  IF bad = {} THEN Len(calls)
        ELSE (CHOOSE i \in bad : \A j \in bad : i <= j) - 1

\* the node a track's calls leave behind
NodeOf(track, calls) ==
    [track |-> track, calls |-> SubSeq(calls, 1, CallsMade(calls))]

Threw(calls) == CallsMade(calls) < Len(calls)

---------------------------------------------------------------------------
(* process(): tempo rate, time-stretch decision, context                   *)

\* Math.pow(10, db / 20), for the decibel values of the model (multiples of 20)
RECURSIVE DbToGain(_)
DbToGain(db) ==
    IF db = 0 THEN RInt(1)
    ELSE IF db > 0 THEN RMul(RInt(10), DbToGain(db - 20))
    ELSE RDiv(DbToGain(db + 20), RInt(10))

\* o.targetDurationMinutes * 60
TDur(o) == RMul(o.targetDurationMinutes, RInt(60))

\* Math.max(f.sampleRate, m.sampleRate)
OutputSampleRate(f, m) == IF f.sampleRate >= m.sampleRate THEN f.sampleRate ELSE m.sampleRate

\* o.sourceBpmOverride || m.bpmInfo?.corrected || 120  (0 stands for an absent value)
SourceBpm(m, o) ==
    IF o.sourceBpmOverride # RZero THEN o.sourceBpmOverride
    ELSE IF m.bpmCorrected # RZero THEN m.bpmCorrected
    ELSE RInt(120)

\* o.targetBpm ? o.targetBpm / sBpm : 1.0
RateOf(m, o) == IF o.targetBpm # RZero THEN RDiv(o.targetBpm, SourceBpm(m, o)) ELSE RInt(1)

\* Math.abs(rate - 1.0) > 0.01
StretchRequested(r) == RLt(Rat(1, 100), RAbs(RSub(r, RInt(1))))

\* a threshold that no rate meets
StretchNoOpNever(r) == FALSE

\* timeStretch: Math.abs(rate - 1.0) < 0.01 returns the buffer itself
StretchIsNoOp(r) == RLt(RAbs(RSub(r, RInt(1))), Rat(1, 100))

\* the length multiplied by the rate
StretchedLengthTimesRate(inputLength, r) == RFloor(RMul(RInt(inputLength), r))

\* Math.floor(inputLength / rate)
StretchedLength(inputLength, r) == RFloor(RDiv(RInt(inputLength), r))

\* the buffer timeStretch returns: same channels and sample rate, the new
\* length; its samples are overlap-added grains of the input
timeStretch(buffer, r) ==
    IF StretchIsNoOp(r) THEN buffer
    ELSE [length |-> StretchedLength(buffer.length, r),
          sampleRate |-> buffer.sampleRate,
          peak |-> buffer.peak, stretched |-> TRUE]

\* a context sized from the music track instead of the target duration
CtxLengthFromMusic(f, m, o) == m.length

\* Math.floor(tDur * outputSampleRate)
CtxLength(f, m, o) == RFloor(RMul(TDur(o), RInt(OutputSampleRate(f, m))))

BufferOf(track) ==
    [length |-> track.length, sampleRate |-> track.sampleRate, peak |-> track.peak,
     stretched |-> FALSE]

Duration(buffer) == BufDuration(buffer.length, buffer.sampleRate)

---------------------------------------------------------------------------
(* renderLoopingTrack and renderMusicTrack: the calls of one iteration     *)

\* one pass of the while loop of renderLoopingTrack, placed at c
LoopingTrackCalls(c, dur, totalDur, targetVolume, cf) ==
    LET segmentEnd == RAdd(c, dur)
        fadeOutStart == RSub(segmentEnd, cf)
        fadeIn == IF c = RZero THEN <<SetCall(targetVolume, RZero)>>
                  ELSE <<SetCall(RZero, c), RampCall(targetVolume, RAdd(c, cf))>>
        fadeOut == IF RLt(segmentEnd, totalDur)
                   THEN <<SetCall(targetVolume, fadeOutStart), RampCall(RZero, segmentEnd)>>
                   ELSE <<SetCall(targetVolume, RMin(fadeOutStart, totalDur))>>
                        \o (IF RLt(fadeOutStart, totalDur)
                            THEN <<RampCall(RZero, RAdd(totalDur, cf))>> ELSE <<>>)
        play == <<StartCall(c, RZero)>>
                \o (IF RLt(totalDur, segmentEnd) THEN <<StopCall(totalDur)>> ELSE <<>>)
    IN  fadeIn \o fadeOut \o play

\* a placement rule without the overlap
NextPlacementNoOverlap(c, dur, cf) == RAdd(c, dur)

\* cur = cur + dur - cf
NextPlacement(c, dur, cf) == RSub(RAdd(c, dur), cf)

\* the durations renderMusicTrack derives from the boundaries
EIntroDur(bnd, r) == RDiv(bnd.introEnd, r)
ELoopDur(bnd, r) == RDiv(RSub(bnd.outroStart, bnd.introEnd), r)
EOutroDur(b, bnd, r) == RDiv(RSub(Duration(b), bnd.outroStart), r)
\* const lET = totalDur - eOutroDur
LoopEndTime(b, bnd, totalDur, r) == RSub(totalDur, EOutroDur(b, bnd, r))

\* the intro node
MusicIntroCalls(bnd, targetVolume, cf, r) ==
    << SetCall(targetVolume, RZero),
       SetCall(targetVolume, RSub(EIntroDur(bnd, r), cf)),
       RampCall(RZero, EIntroDur(bnd, r)),
       StartDurCall(RZero, RZero, bnd.introEnd) >>

\* one pass of the while loop of renderMusicTrack, at c
MusicLoopCalls(c, b, bnd, totalDur, targetVolume, cf, r) ==
    LET startTime == RSub(c, cf)
        segmentEnd == RAdd(c, ELoopDur(bnd, r))
        next == RSub(segmentEnd, cf)
    IN  << SetCall(RZero, startTime),
           RampCall(targetVolume, c),
           SetCall(targetVolume, RSub(segmentEnd, cf)),
           RampCall(RZero, segmentEnd),
           StartDurCall(startTime,
                        RMax(RZero, RSub(bnd.introEnd, RMul(cf, r))),
                        RAdd(RSub(bnd.outroStart, bnd.introEnd), RMul(cf, r))) >>
        \o (IF RLe(LoopEndTime(b, bnd, totalDur, r), next)
            THEN <<StopCall(LoopEndTime(b, bnd, totalDur, r))>> ELSE <<>>)

\* cur after one pass without the cut at lET
MusicNextCurUnclamped(c, b, bnd, totalDur, cf, r) ==
    RSub(RAdd(c, ELoopDur(bnd, r)), cf)

\* cur after one pass: lET when the next placement reaches it
MusicNextCur(c, b, bnd, totalDur, cf, r) ==
    LET next == RSub(RAdd(c, ELoopDur(bnd, r)), cf)
    IN  IF RLe(LoopEndTime(b, bnd, totalDur, r), next)
        THEN LoopEndTime(b, bnd, totalDur, r) ELSE next

\* the outro node
MusicOutroCalls(c, bnd, targetVolume, cf, r) ==
    << SetCall(RZero, RSub(c, cf)),
       RampCall(targetVolume, c),
       StartCall(RSub(c, cf), RMax(RZero, RSub(bnd.outroStart, RMul(cf, r)))) >>

\* o.manualBoundaries ? { ...o.manualBoundaries, detected: true } : this.detectBoundaries(m.buffer)
OrigBounds(m, o) ==
    IF o.manualBoundaries.present
    THEN [introEnd |-> o.manualBoundaries.introEnd,
          outroStart |-> o.manualBoundaries.outroStart, detected |-> TRUE]
    ELSE detectBoundaries(RunsData(m.runs), m.sampleRate)

\* stretchedBounds
StretchedBounds(m, o, r) ==
    LET origBounds == OrigBounds(m, o)
    IN  [introEnd |-> RDiv(origBounds.introEnd, r),
         outroStart |-> RDiv(origBounds.outroStart, r),
         detected |-> origBounds.detected]

\* the playback rate process() passes to renderMusicTrack: 1.0
PlaybackRate == RInt(1)

\* a report of 50 after the stretch, above the 45 that follows it
ProgressAtStretchLate(stage) ==
    CASE stage = "begin" -> 5
      [] stage = "stretched" -> 50
      [] stage = "focus" -> 45
      [] stage = "music" -> 75
      [] stage = "rendered" -> 95
      [] stage = "encoded" -> 100

\* the values process() reports at its stages
ProgressAt(stage) ==
    CASE stage = "begin" -> 5
      [] stage = "stretched" -> 25
      [] stage = "focus" -> 45
      [] stage = "music" -> 75
      [] stage = "rendered" -> 95
      [] stage = "encoded" -> 100

---------------------------------------------------------------------------
(* The inputs of process()                                                 *)

\* foundation tracks: 30 s (at two sample rates), 3 s and 2 s of a constant
\* tone at half of full scale
FocusTracks ==
    {[length |-> n, sampleRate |-> sr, peak |-> Rat(1, 2)] :
        <<n, sr>> \in {<<600, 20>>, <<240, 8>>, <<60, 20>>, <<40, 20>>}}

\* music tracks at 10 Hz: 40 s at constant full scale, and 42.2 s with a
\* loud first and last sample around a quieter body
MusicRuns ==
    { <<[level |-> 2, len |-> 400]>>,
      <<[level |-> 2, len |-> 1], [level |-> 1, len |-> 420], [level |-> 2, len |-> 1]>> }

MusicTracks ==
    {[length |-> RunsLength(r), sampleRate |-> 10, runs |-> r, peak |-> RInt(1),
      bpmCorrected |-> RInt(120)] : r \in MusicRuns}

NoBounds == [introEnd |-> RZero, outroStart |-> RZero, detected |-> FALSE]
NoBuffer == [length |-> 0, sampleRate |-> 0, peak |-> RZero, stretched |-> FALSE]
NoCtx == [length |-> 0, sampleRate |-> 0, channels |-> 0]
NoRendered == [length |-> 0, sampleRate |-> 0, channels |-> 0]
NoManual == [present |-> FALSE, introEnd |-> RZero, outroStart |-> RZero]

\* manualBoundaries: absent, the pair (5, 35), the pair (5, 8) with a loop
\* segment of 3 s, or what handleProcess passes, the value detectBoundaries
\* returned at upload
ManualChoices(m) ==
    { NoManual,
      [present |-> TRUE, introEnd |-> RInt(5), outroStart |-> RInt(35)],
      [present |-> TRUE, introEnd |-> RInt(5), outroStart |-> RInt(8)],
      [present |-> TRUE,
       introEnd |-> detectBoundaries(RunsData(m.runs), m.sampleRate).introEnd,
       outroStart |-> detectBoundaries(RunsData(m.runs), m.sampleRate).outroStart] }

TargetMinutes == {Rat(7, 6), Rat(1, 3), Rat(1, 7)}
Crossfades == {RInt(1), RInt(3)}
TargetBpms == {RZero, RInt(60), Rat(1206, 10), RInt(240)}
BpmOverrides == {RZero, RInt(60)}
MusicVolumesDb == {0, -20}

Init ==
    /\ prPc = "start"
    /\ focus \in FocusTracks
    /\ music \in MusicTracks
    /\ \E mins \in TargetMinutes, cf \in Crossfades, tb \in TargetBpms,
          ov \in BpmOverrides, mv \in MusicVolumesDb, mb \in ManualChoices(music) :
          opts = [targetDurationMinutes |-> mins, musicVolumeDb |-> mv,
                  focusVolumeDb |-> 0, crossfadeDuration |-> cf, targetBpm |-> tb,
                  sourceBpmOverride |-> ov, manualBoundaries |-> mb]
    /\ rate = RInt(1)
    /\ musicBuffer = NoBuffer
    /\ ctx = NoCtx
    /\ sched = <<>>
    /\ cur = RZero
    /\ bounds = NoBounds
    /\ progressLog = <<>>
    /\ rendered = NoRendered

---------------------------------------------------------------------------
(* process(): the steps                                                    *)

MaxNodes == 10


TotalDur == TDur(opts)
Cf == opts.crossfadeDuration

\* p(5); sBpm and rate
ProcessBegin ==
    /\ prPc = "start"
    /\ progressLog' = Append(progressLog, ProgressAt("begin"))
    /\ rate' = RateOf(music, opts)
    /\ musicBuffer' = BufferOf(music)
    /\ prPc' = "stretch"
    /\ UNCHANGED <<focus, music, opts, ctx, sched, cur, bounds, rendered>>
    /\ UNCHANGED notPr

\* if (Math.abs(rate - 1.0) > 0.01) { musicBuffer = this.timeStretch(m.buffer, rate); p(25); }
\* createBuffer throws for a length of 0
ProcessStretch ==
    /\ prPc = "stretch"
    /\ IF StretchRequested(rate)
       THEN IF timeStretch(BufferOf(music), rate).length = 0
            THEN /\ prPc' = "threw"
                 /\ UNCHANGED <<musicBuffer, progressLog>>
            ELSE /\ musicBuffer' = timeStretch(BufferOf(music), rate)
                 /\ progressLog' = Append(progressLog, ProgressAt("stretched"))
                 /\ prPc' = "ctx"
       ELSE /\ prPc' = "ctx"
            /\ UNCHANGED <<musicBuffer, progressLog>>
    /\ UNCHANGED <<focus, music, opts, rate, ctx, sched, cur, bounds, rendered>>
    /\ UNCHANGED notPr

\* new OfflineAudioContext(2, Math.floor(tDur * outputSampleRate), outputSampleRate),
\* which throws for a length of 0; the master gain
ProcessCreateContext ==
    /\ prPc = "ctx"
    /\ IF CtxLength(focus, music, opts) <= 0
       THEN prPc' = "threw" /\ UNCHANGED <<ctx, cur>>
       ELSE /\ ctx' = [length |-> CtxLength(focus, music, opts),
                       sampleRate |-> OutputSampleRate(focus, music), channels |-> 2]
            /\ cur' = RZero
            /\ prPc' = "focusLoop"
    /\ UNCHANGED <<focus, music, opts, rate, musicBuffer, sched, bounds, progressLog, rendered>>
    /\ UNCHANGED notPr

\* one pass of: while (cur < totalDur) { ... } in renderLoopingTrack
FocusPlace ==
    /\ prPc = "focusLoop" /\ RLt(cur, TotalDur) /\ Len(sched) < MaxNodes
    /\ LET calls == LoopingTrackCalls(cur, Duration(BufferOf(focus)), TotalDur,
                                      DbToGain(opts.focusVolumeDb), Cf)
       IN  /\ sched' = Append(sched, NodeOf("focus", calls))
           /\ IF Threw(calls)
              THEN prPc' = "threw" /\ UNCHANGED cur
              ELSE /\ cur' = NextPlacement(cur, Duration(BufferOf(focus)), Cf)
                   /\ UNCHANGED prPc
    /\ UNCHANGED <<focus, music, opts, rate, musicBuffer, ctx, bounds, progressLog, rendered>>
    /\ UNCHANGED notPr

\* the loop is left (cur >= totalDur); p(45)
FocusReturn ==
    /\ prPc = "focusLoop" /\ ~RLt(cur, TotalDur)
    /\ progressLog' = Append(progressLog, ProgressAt("focus"))
    /\ prPc' = "bounds"
    /\ UNCHANGED <<focus, music, opts, rate, musicBuffer, ctx, sched, cur, bounds, rendered>>
    /\ UNCHANGED notPr

\* origBounds and stretchedBounds
ProcessBounds ==
    /\ prPc = "bounds"
    /\ bounds' = StretchedBounds(music, opts, rate)
    /\ prPc' = "musicIntro"
    /\ UNCHANGED <<focus, music, opts, rate, musicBuffer, ctx, sched, cur, progressLog, rendered>>
    /\ UNCHANGED notPr

\* renderMusicTrack up to the loop: the intro node; cur = eIntroDur
MusicIntro ==
    /\ prPc = "musicIntro"
    /\ LET calls == MusicIntroCalls(bounds, DbToGain(opts.musicVolumeDb), Cf, PlaybackRate)
       IN  /\ sched' = Append(sched, NodeOf("intro", calls))
           /\ IF Threw(calls)
              THEN prPc' = "threw" /\ UNCHANGED cur
              ELSE /\ cur' = EIntroDur(bounds, PlaybackRate)
                   /\ prPc' = "musicLoop"
    /\ UNCHANGED <<focus, music, opts, rate, musicBuffer, ctx, bounds, progressLog, rendered>>
    /\ UNCHANGED notPr

\* one pass of: while (cur < lET) { ... } in renderMusicTrack
MusicLoopPlace ==
    /\ prPc = "musicLoop" /\ Len(sched) < MaxNodes
    /\ RLt(cur, LoopEndTime(musicBuffer, bounds, TotalDur, PlaybackRate))
    /\ LET calls == MusicLoopCalls(cur, musicBuffer, bounds, TotalDur,
                                   DbToGain(opts.musicVolumeDb), Cf, PlaybackRate)
       IN  /\ sched' = Append(sched, NodeOf("loop", calls))
           /\ IF Threw(calls)
              THEN prPc' = "threw" /\ UNCHANGED cur
              ELSE /\ cur' = MusicNextCur(cur, musicBuffer, bounds, TotalDur, Cf, PlaybackRate)
                   /\ UNCHANGED prPc
    /\ UNCHANGED <<focus, music, opts, rate, musicBuffer, ctx, bounds, progressLog, rendered>>
    /\ UNCHANGED notPr

\* the loop is left; the outro node; p(75)
MusicOutro ==
    /\ prPc = "musicLoop"
    /\ ~RLt(cur, LoopEndTime(musicBuffer, bounds, TotalDur, PlaybackRate))
    /\ LET calls == MusicOutroCalls(cur, bounds, DbToGain(opts.musicVolumeDb), Cf, PlaybackRate)
       IN  /\ sched' = Append(sched, NodeOf("outro", calls))
           /\ IF Threw(calls)
              THEN prPc' = "threw" /\ UNCHANGED progressLog
              ELSE /\ progressLog' = Append(progressLog, ProgressAt("music"))
                   /\ prPc' = "render"
    /\ UNCHANGED <<focus, music, opts, rate, musicBuffer, ctx, cur, bounds, rendered>>
    /\ UNCHANGED notPr

\* const rendered = await ctx.startRendering(); p(95)
StartRendering ==
    /\ prPc = "render"
    /\ rendered' = [length |-> ctx.length, sampleRate |-> ctx.sampleRate,
                    channels |-> ctx.channels]
    /\ progressLog' = Append(progressLog, ProgressAt("rendered"))
    /\ prPc' = "encode"
    /\ UNCHANGED <<focus, music, opts, rate, musicBuffer, ctx, sched, cur, bounds>>
    /\ UNCHANGED notPr

\* audioBufferToLossless(rendered, o.exportFormat); p(100); return blob
EncodeAndReturn ==
    /\ prPc = "encode"
    /\ progressLog' = Append(progressLog, ProgressAt("encoded"))
    /\ prPc' = "done"
    /\ UNCHANGED <<focus, music, opts, rate, musicBuffer, ctx, sched, cur, bounds, rendered>>
    /\ UNCHANGED notPr

Next ==
    \/ ProcessBegin
    \/ ProcessStretch
    \/ ProcessCreateContext
    \/ FocusPlace
    \/ FocusReturn
    \/ ProcessBounds
    \/ MusicIntro
    \/ MusicLoopPlace
    \/ MusicOutro
    \/ StartRendering
    \/ EncodeAndReturn

---------------------------------------------------------------------------
(* What the context renders: gain automation, source playback, the mix     *)

\* the gain calls made on a node, in the order the timeline keeps them:
\* by time, calls for the same time in the order made
RECURSIVE InsertEvent(_, _)
InsertEvent(e, evs) ==
    IF evs = <<>> THEN <<e>>
    ELSE IF RLt(e.t, Head(evs).t) THEN <<e>> \o evs
    ELSE <<Head(evs)>> \o InsertEvent(e, Tail(evs))

RECURSIVE Timeline(_)
Timeline(calls) ==
    IF calls = <<>> THEN <<>>
    ELSE LET c == calls[Len(calls)]
             front == Timeline(SubSeq(calls, 1, Len(calls) - 1))
         IN  IF c.op \in {"set", "ramp"} THEN InsertEvent(c, front) ELSE front

\* the value of a GainNode's gain at time t: 1 before any event; an event's
\* value from its time on; a linear ramp from the previous event to a ramp
\* event that follows it
GainAt(node, t) ==
    LET evs == Timeline(node.calls)
        before == {i \in 1..Len(evs) : RLe(evs[i].t, t)}
        k == Cardinality(before)
        v0 == IF k = 0 THEN RInt(1) ELSE evs[k].v
        t0 == IF k = 0 THEN RZero ELSE evs[k].t
    IN  IF k < Len(evs) /\ evs[k + 1].op = "ramp"
        THEN RAdd(v0, RDiv(RMul(RSub(evs[k + 1].v, v0), RSub(t, t0)),
                           RSub(evs[k + 1].t, t0)))
        ELSE v0

HasCall(node, op) == \E i \in 1..Len(node.calls) : node.calls[i].op = op
CallOf(node, op) == node.calls[CHOOSE i \in 1..Len(node.calls) : node.calls[i].op = op]

NodeBuffer(node) == IF node.track = "focus" THEN BufferOf(focus) ELSE musicBuffer

\* the time at which a started source falls silent: the end of its buffer,
\* of the duration given to start, or the stop time, whichever is first
SourceEnd(node) ==
    LET st == CallOf(node, "start")
        natural == RAdd(st.t, RSub(Duration(NodeBuffer(node)), st.offset))
        byDur == IF st.hasDur THEN RMin(natural, RAdd(st.t, st.dur)) ELSE natural
    IN  IF HasCall(node, "stop") THEN RMin(byDur, CallOf(node, "stop").t) ELSE byDur

\* the source is sounding at time t
Sounding(node, t) ==
    /\ HasCall(node, "start")
    /\ RLe(CallOf(node, "start").t, t)
    /\ RLt(t, SourceEnd(node))

\* a level of a run, as a fraction of full scale
LevelScale == 2

RECURSIVE RunLevelAt(_, _)
RunLevelAt(runs, i) ==
    IF runs = <<>> THEN 0
    ELSE IF i < Head(runs).len THEN Head(runs).level
    ELSE RunLevelAt(Tail(runs), i - Head(runs).len)

\* the sample the source plays at time t: the foundation is a constant
\* tone; the unstretched music buffer holds the track's runs; of a
\* stretched buffer only the peak is kept
SampleAt(node, t) ==
    LET pos == RAdd(CallOf(node, "start").offset, RSub(t, CallOf(node, "start").t))
    IN  IF node.track = "focus" THEN focus.peak
        ELSE IF musicBuffer.stretched THEN musicBuffer.peak
        ELSE Rat(RunLevelAt(music.runs, RFloor(RMul(pos, RInt(music.sampleRate)))),
                 LevelScale)

\* masterGain.gain.setValueAtTime(0.89, 0)
MasterGain == Rat(89, 100)

RECURSIVE SumNodes(_, _)
SumNodes(nodes, t) ==
    IF nodes = <<>> THEN RZero
    ELSE RAdd(IF Sounding(Head(nodes), t)
              THEN RMul(GainAt(Head(nodes), t), SampleAt(Head(nodes), t))
              ELSE RZero,
              SumNodes(Tail(nodes), t))

\* the output sample at time t: the sum of the sounding sources, each
\* through its gain, through the master gain
MixAt(t) == RMul(MasterGain, SumNodes(sched, t))

---------------------------------------------------------------------------
(* Specification SpecBounds: detectBoundaries applied to one buffer        *)

MaxRuns == 3
RunLevels == {-1, 0, 1, 2}
RunLens == {1, 420}
BoundsSampleRates == {10, 20}

RunSeqs == UNION {[1..n -> [level : RunLevels, len : RunLens]] : n \in 1..MaxRuns}

InitBounds ==
    /\ bdPc = "call"
    /\ bdSig \in [sampleRate : BoundsSampleRates, runs : RunSeqs]
    /\ bdOut = NoBounds

DetectBoundariesCall ==
    /\ bdPc = "call"
    /\ bdOut' = detectBoundaries(RunsData(bdSig.runs), bdSig.sampleRate)
    /\ bdPc' = "done"
    /\ UNCHANGED bdSig
    /\ UNCHANGED notBd

NextBounds == DetectBoundariesCall


---------------------------------------------------------------------------
(* Specification SpecStretch: one call of timeStretch on a buffer with     *)
(* its sample data.  An AudioBuffer is [id, numberOfChannels, sampleRate,  *)
(* length, data]: id tells one buffer object from another, data[c][k] is   *)
(* sample k - 1 of channel c - 1, a rational.  The sample rates are chosen so that the *)
(* window 0.5 (1 - cos(2 pi i / (grainSize - 1))) is rational.             *)

\* Math.floor(sampleRate * 0.06)
GrainSize(sampleRate) == (sampleRate * 6) \div 100

\* a stride of a quarter grain
OutputStrideQuarter(grainSize) == grainSize \div 4

\* Math.floor(grainSize * (1 - overlap)), overlap = 0.5
OutputStride(grainSize) == grainSize \div 2

\* 0.5 * (1 - Math.cos((2 * Math.PI * i) / (grainSize - 1))) for grains of
\* 3 and 5 samples, where the cosine is 1, 0 or -1
HannWindow(i, grainSize) ==
    LET quarter == (4 * i) \div (grainSize - 1)  \* the angle in quarter turns
        cosine == CASE quarter % 4 = 0 -> 1
                    [] quarter % 4 = 2 -> -1
                    [] OTHER -> 0
    IN  Rat(1 - cosine, 2)

\* the buffer timeStretch returns for a rate outside the threshold: every
\* grain placed at outPos = 0, outputStride, ... < outputLength whose input
\* window [inPos, inPos + grainSize) lies inside the input adds its
\* windowed samples to the output samples it covers
StretchedBuffer(buffer, r) ==
    LET outputLength == StretchedLength(buffer.length, r)
        grainSize == GrainSize(buffer.sampleRate)
        outputStride == OutputStride(grainSize)
        InPos(outPos) == RFloor(RMul(RInt(outPos), r))
        grains == { g \in 0..outputLength :
                      /\ g * outputStride < outputLength
                      /\ InPos(g * outputStride) + grainSize <= buffer.length }
        Contribution(c, outIdx, g) ==
            LET i == outIdx - g * outputStride
            IN  IF i >= 0 /\ i < grainSize
                THEN RMul(buffer.data[c][InPos(g * outputStride) + i + 1],
                          HannWindow(i, grainSize))
                ELSE RZero
        \* the grains whose window covers output sample outIdx; every other
        \* grain adds nothing to it
        Covering(outIdx) ==
            { g \in grains : /\ outIdx - g * outputStride >= 0
                             /\ outIdx - g * outputStride < grainSize }
        RECURSIVE SumGrains(_, _, _)
        SumGrains(c, outIdx, gs) ==
            IF gs = {} THEN RZero
            ELSE LET g == CHOOSE x \in gs : TRUE
                 IN  RAdd(Contribution(c, outIdx, g), SumGrains(c, outIdx, gs \ {g}))
    IN  [id |-> buffer.id + 1,
         numberOfChannels |-> buffer.numberOfChannels,
         sampleRate |-> buffer.sampleRate,
         length |-> outputLength,
         data |-> [c \in 1..buffer.numberOfChannels |->
                     [k \in 1..outputLength |-> SumGrains(c, k - 1, Covering(k - 1))]]]

\* timeStretch on a buffer with its samples
timeStretchData(buffer, r) ==
    IF StretchIsNoOp(r) THEN buffer ELSE StretchedBuffer(buffer, r)

MaxStretchLen == 9
StretchSampleRates == {50, 84}
StretchRates == {RInt(1), Rat(1005, 1000), Rat(992, 1000), Rat(101, 100), Rat(99, 100),
                 RInt(2), Rat(1, 2), Rat(3, 2), RInt(12)}

\* input buffers: samples k + 1 in channel 0 and -(k + 1) in channel 1
StretchInputs ==
    { [id |-> 1, numberOfChannels |-> nc, sampleRate |-> sr, length |-> n,
       data |-> [c \in 1..nc |-> [k \in 1..n |-> RInt(IF c = 1 THEN k ELSE -k)]]] :
        nc \in 1..2, sr \in StretchSampleRates, n \in 1..MaxStretchLen }

NoAudioBuffer == [id |-> 0, numberOfChannels |-> 0, sampleRate |-> 0, length |-> 0,
                  data |-> <<>>]

InitStretch ==
    /\ tsPc = "call"
    /\ tsIn \in StretchInputs
    /\ tsRate \in StretchRates
    /\ tsOut = NoAudioBuffer

\* a call that returns; new OfflineAudioContext(numChannels, outputLength,
\* sampleRate) accepts only a length of at least 1
TimeStretchReturn ==
    /\ tsPc = "call"
    /\ StretchIsNoOp(tsRate) \/ StretchedLength(tsIn.length, tsRate) >= 1
    /\ tsOut' = timeStretchData(tsIn, tsRate)
    /\ tsPc' = "done"
    /\ UNCHANGED <<tsIn, tsRate>>
    /\ UNCHANGED notTs

\* a call that throws in the OfflineAudioContext constructor
TimeStretchThrow ==
    /\ tsPc = "call"
    /\ ~StretchIsNoOp(tsRate) /\ StretchedLength(tsIn.length, tsRate) < 1
    /\ tsPc' = "threw"
    /\ UNCHANGED <<tsIn, tsRate, tsOut>>
    /\ UNCHANGED notTs

NextStretch == TimeStretchReturn \/ TimeStretchThrow

---------------------------------------------------------------------------
(* Specification SpecDecode: one call of decodeFile.  A file name is a     *)
(* sequence of one-character strings.  The analyser's spectrum is a        *)
(* function from a few frequency bins to decibel levels; every other bin   *)
(* is at -Infinity.  An optional number is [present, value].               *)

Absent == [present |-> FALSE, value |-> RZero]
Some(x) == [present |-> TRUE, value |-> x]

\* the value of a decimal digit character, -1 for any other character
DigitOf(ch) ==
    CASE ch = "0" -> 0 [] ch = "1" -> 1 [] ch = "2" -> 2 [] ch = "3" -> 3
      [] ch = "4" -> 4 [] ch = "5" -> 5 [] ch = "6" -> 6 [] ch = "7" -> 7
      [] ch = "8" -> 8 [] ch = "9" -> 9 [] OTHER -> -1

\* the first index from i on whose character is not in the class, Len + 1
\* when there is none: where a greedy \d* or \s* ends
RECURSIVE SkipWhile(_, _, _)
SkipWhile(name, i, digits) ==
    IF i > Len(name) THEN i
    ELSE IF (digits /\ DigitOf(name[i]) >= 0) \/ (~digits /\ name[i] = " ")
    THEN SkipWhile(name, i + 1, digits)
    ELSE i

\* the group matched by /(\d+[._]?\d*)\s*hz/i when the match starts at s,
\* as <<first, last>> indices; <<0, 0>> when no match starts at s
HzMatchAt(name, s) ==
    LET e1 == SkipWhile(name, s, TRUE)
        e2 == IF e1 <= Len(name) /\ name[e1] \in {".", "_"}
              THEN SkipWhile(name, e1 + 1, TRUE) ELSE e1
        e3 == SkipWhile(name, e2, FALSE)
    IN  IF /\ DigitOf(name[s]) >= 0
           /\ e3 + 1 <= Len(name)
           /\ name[e3] \in {"h", "H"} /\ name[e3 + 1] \in {"z", "Z"}
        THEN <<s, e2 - 1>> ELSE <<0, 0>>

\* parseFloat of digits, then "." (the "_" replaced), then digits
RECURSIVE ParseFloat(_, _, _)
ParseFloat(chars, acc, scale) ==
    IF chars = <<>> THEN Rat(acc, IF scale = 0 THEN 1 ELSE scale)
    ELSE IF DigitOf(Head(chars)) < 0 THEN ParseFloat(Tail(chars), acc, 1)
    ELSE ParseFloat(Tail(chars), 10 * acc + DigitOf(Head(chars)),
                    IF scale = 0 THEN 0 ELSE 10 * scale)

\* extractFrequency: the number of the leftmost match, null without a match
extractFrequency(name) ==
    LET starts == {s \in 1..Len(name) : HzMatchAt(name, s) # <<0, 0>>}
    IN  IF starts = {} THEN Absent
        ELSE LET s == CHOOSE x \in starts : \A y \in starts : x <= y
                 g == HzMatchAt(name, s)
             IN  Some(ParseFloat(SubSeq(name, g[1], g[2]), 0, 0))

fftSize == 2048

\* detectDominantFrequency, on the spectrum the analyser reports: the
\* first loudest bin among 1 .. upperLimit - 1, bin 0 when all are at
\* -Infinity; its frequency when above 5, rounded to one decimal
detectDominantFrequency(spectrum, sampleRate) ==
    LET upperLimit == (1000 * fftSize) \div sampleRate
        bins == {i \in DOMAIN spectrum : i >= 1 /\ i < upperLimit}
        loudest == {i \in bins : \A j \in bins : spectrum[j] <= spectrum[i]}
        maxIdx == IF bins = {} THEN 0
                  ELSE CHOOSE i \in loudest : \A j \in loudest : i <= j
        freq == RMul(RInt(maxIdx), Rat(sampleRate, fftSize))
    IN  IF RLt(RInt(5), freq) THEN Some(Round1(freq)) ELSE Absent

\* a || b on optional numbers: null and 0 are falsy
OrElse(a, b) == IF a.present /\ a.value # RZero THEN a ELSE b

\* file.type.split('/')[1]?.toUpperCase() || 'AUDIO'
FormatOf(type) ==
    CASE type = "audio/wav" -> "WAV" [] type = "audio/mpeg" -> "MPEG" [] OTHER -> "AUDIO"

\* the tempo analysis may be skipped below this duration bound (seconds)
TempoDurationLimit == 600

\* estimates analyzeBpm can return for the file: in accurate mode the
\* aggregate of the one tempo 6000 / bestLag; in fast mode the fallback or
\* the aggregate of one accepted pass
EstimatesOf(mode) ==
    IF mode = "accurate"
    THEN { AggregateEstimate(<<Rat(60 * 100, lag)>>, mode, <<"Full-Track Autocorrelation">>) :
             lag \in {MinLag, MaxLag} }
    ELSE {FallbackEstimate(mode)} \cup
         { AggregateEstimate(<<Round1(Rat(h, 100))>>, mode, <<"Peak Clustering">>) :
             h \in {12000, 29996} }

FileNames ==
    { <<"b", "e", "d">>, <<"4", "h", "z">>, <<"4", " ", "H", "z">>,
      <<"4", "_", "5", "h", "z">>, <<"1", "0", "h", "z">>, <<"0", "h", "z">>,
      <<"5", "h", "z">>, <<"5", ".", "1", "H", "Z">>, <<"9", "x", "3", "_", "h", "z">>,
      <<"1", ".", "2", ".", "5", "h", "z">>, <<"4", "0", "h">>, <<"h", "z">> }

DecodeSampleRates == {44100, 48000}

\* spectra: silence, one tone, two tones, a tone at and above the 1000 Hz limit
Spectra ==
    { [i \in {} |-> 0], [i \in {1} |-> -20], [i \in {0, 9} |-> -20],
      [i \in {9, 20} |-> IF i = 9 THEN -40 ELSE -20], [i \in {9, 20} |-> -20],
      [i \in {42, 46} |-> IF i = 42 THEN -60 ELSE -10], [i \in {200} |-> -10] }

\* decoded lengths: 30 s, and one frame below, at and above 600 s
DecodedLengths(sr) ==
    {30 * sr, TempoDurationLimit * sr - 1, TempoDurationLimit * sr,
     TempoDurationLimit * sr + 1}

NoFile == [name |-> <<>>, type |-> "", mode |-> "fast", sampleRate |-> 1, length |-> 0,
           spectrum |-> [i \in {} |-> 0]]
NoMetadata == [name |-> <<>>, duration |-> RZero, sampleRate |-> 0, format |-> "",
               bpmInfo |-> [present |-> FALSE, value |-> NoEstimate],
               frequency |-> Absent, pulseRate |-> Absent, divisorBpms |-> <<>>]

InitDecode ==
    /\ dcPc = "decode"
    /\ \E name \in FileNames, type \in {"audio/wav", ""}, mode \in {"fast", "accurate"},
          sr \in DecodeSampleRates, spectrum \in Spectra :
          \E n \in DecodedLengths(sr) :
             dcFile = [name |-> name, type |-> type, mode |-> mode, sampleRate |-> sr,
                       length |-> n, spectrum |-> spectrum]
    /\ dcMeta = NoMetadata

\* decodeAudioData resolved; the metadata literal
DecodeAudio ==
    /\ dcPc = "decode"
    /\ dcMeta' = [dcMeta EXCEPT !.name = dcFile.name,
                                !.duration = BufDuration(dcFile.length, dcFile.sampleRate),
                                !.sampleRate = dcFile.sampleRate,
                                !.format = FormatOf(dcFile.type)]
    /\ dcPc' = "tempo"
    /\ UNCHANGED dcFile
    /\ UNCHANGED notDc

\* if (audioBuffer.duration < 600) metadata.bpmInfo = await this.analyzeBpm(...)
DecodeTempo ==
    /\ dcPc = "tempo"
    /\ IF RLt(dcMeta.duration, RInt(TempoDurationLimit))
       THEN \E e \in EstimatesOf(dcFile.mode) :
               dcMeta' = [dcMeta EXCEPT !.bpmInfo = [present |-> TRUE, value |-> e]]
       ELSE UNCHANGED dcMeta
    /\ dcPc' = "frequency"
    /\ UNCHANGED dcFile
    /\ UNCHANGED notDc

\* metadata.frequency = extractFrequency(name) || await detectDominantFrequency(buffer);
\* pulseRate and divisorBpms when it is truthy; return metadata
DecodeFrequency ==
    /\ dcPc = "frequency"
    /\ LET frequency == OrElse(extractFrequency(dcFile.name),
                               detectDominantFrequency(dcFile.spectrum, dcFile.sampleRate))
           pulseRate == RMul(frequency.value, RInt(60))
       IN  dcMeta' =
             IF frequency.present /\ frequency.value # RZero
             THEN [dcMeta EXCEPT !.frequency = frequency,
                                 !.pulseRate = Some(pulseRate),
                                 !.divisorBpms =
                                     [k \in 1..4 |-> Round1(RDiv(pulseRate, RInt(4 + 2 * k)))]]
             ELSE [dcMeta EXCEPT !.frequency = frequency]
    /\ dcPc' = "done"
    /\ UNCHANGED dcFile
    /\ UNCHANGED notDc

NextDecode == DecodeAudio \/ DecodeTempo \/ DecodeFrequency

---------------------------------------------------------------------------
(* Specification SpecEncode: one call of audioBufferToLossless.  The       *)
(* ArrayBuffer is written front to back, so it is modelled by the sequence *)
(* of bytes written; a write is <<size, value>> with the value already     *)
(* reduced to an unsigned integer of that size.  A DataView write that     *)
(* would pass the end of the buffer throws a RangeError.                   *)

ExportFormats == {"mp3_high", "mp3_standard", "wav_lossless", "flac_lossless"}

\* buffer.length * numOfChan * 2 + 44
AllocatedLength(buffer) == buffer.length * buffer.numberOfChannels * 2 + 44

\* the bytes of an unsigned value of `size` bytes, least significant first
RECURSIVE LittleEndian(_, _)
LittleEndian(v, size) ==
    IF size = 0 THEN <<>> ELSE <<v % 256>> \o LittleEndian(v \div 256, size - 1)

\* a sample scaled by 0x7FFF also when it is negative
Pcm16Symmetric(x) ==
    LET s == RMax(RInt(-1), RMin(RInt(1), x))
        scaled == RMul(s, RInt(32767))
        int == IF RLt(scaled, RZero) THEN -RFloor(RNeg(scaled)) ELSE RFloor(scaled)
    IN  (int + 65536) % 65536

\* Math.max(-1, Math.min(1, x)), scaled by 0x8000 or 0x7FFF, and stored by
\* setInt16: truncated toward zero, as 16 bits in two's complement
Pcm16(x) ==
    LET s == RMax(RInt(-1), RMin(RInt(1), x))
        scaled == IF RLt(s, RZero) THEN RMul(s, RInt(32768)) ELSE RMul(s, RInt(32767))
        int == IF RLt(scaled, RZero) THEN -RFloor(RNeg(scaled)) ELSE RFloor(scaled)
    IN  (int + 65536) % 65536

\* the thirteen header writes
HeaderWrites(buffer) ==
    LET numOfChan == buffer.numberOfChannels
        length == AllocatedLength(buffer)
    IN  << <<4, 1179011410>>,               \* 0x46464952 "RIFF"
           <<4, length - 8>>,
           <<4, 1163280727>>,               \* 0x45564157 "WAVE"
           <<4, 544501094>>,                \* 0x20746d66 "fmt "
           <<4, 16>>, <<2, 1>>, <<2, numOfChan>>, <<4, buffer.sampleRate>>,
           <<4, buffer.sampleRate * 2 * numOfChan>>, <<2, numOfChan * 2>>, <<2, 16>>,
           <<4, 1635017060>>,               \* 0x61746164 "data"
           <<4, length - 40 - 4>> >>        \* length - offset - 4 at offset 40

\* the writes of one pass of the while loop: the sample of each channel at pos
FrameWrites(buffer, pos) ==
    [i \in 1..buffer.numberOfChannels |-> <<2, Pcm16(buffer.data[i][pos + 1])>>]

\* the writes made in order from the end of `bytes`; threw when one of them
\* would end beyond the capacity
RECURSIVE WriteAll(_, _, _)
WriteAll(bytes, writes, capacity) ==
    IF writes = <<>> THEN [bytes |-> bytes, threw |-> FALSE]
    ELSE IF Len(bytes) + Head(writes)[1] > capacity THEN [bytes |-> bytes, threw |-> TRUE]
    ELSE WriteAll(bytes \o LittleEndian(Head(writes)[2], Head(writes)[1]),
                  Tail(writes), capacity)

\* a label that tells the MP3 formats apart
BlobTypeMp3(format) ==
    CASE format = "flac_lossless" -> "audio/flac"
      [] format \in {"mp3_high", "mp3_standard"} -> "audio/mpeg"
      [] OTHER -> "audio/wav"

\* format === 'flac_lossless' ? "audio/flac" : "audio/wav"
BlobType(format) == IF format = "flac_lossless" THEN "audio/flac" ELSE "audio/wav"

\* the Blob of a whole call, for a buffer whose writes all fit
RECURSIVE FramesFrom(_, _)
FramesFrom(buffer, pos) ==
    IF pos >= buffer.length THEN <<>>
    ELSE FrameWrites(buffer, pos) \o FramesFrom(buffer, pos + 1)

audioBufferToLossless(buffer, format) ==
    [bytes |-> WriteAll(<<>>, HeaderWrites(buffer) \o FramesFrom(buffer, 0),
                        AllocatedLength(buffer)).bytes,
     type |-> BlobType(format)]

MaxFrames == 2
EncodeSampleRates == {8000, 48000}
SampleValues == {Rat(-3, 2), Rat(-1, 2), Rat(1, 3), RInt(1)}

EncodeInputs ==
    UNION { { [id |-> 1, numberOfChannels |-> nc, sampleRate |-> sr, length |-> n, data |-> d] :
                d \in [1..nc -> [1..n -> SampleValues]] } :
            <<nc, n, sr>> \in (1..2) \X (1..MaxFrames) \X EncodeSampleRates }

NoBlob == [bytes |-> <<>>, type |-> ""]

InitEncode ==
    /\ enPc = "header"
    /\ enBuf \in EncodeInputs
    /\ enFormat \in ExportFormats
    /\ enBytes = <<>>
    /\ enPos = 0
    /\ enBlob = NoBlob

\* the allocation and the thirteen set32 / set16 calls
EncodeHeader ==
    /\ enPc = "header"
    /\ LET w == WriteAll(<<>>, HeaderWrites(enBuf), AllocatedLength(enBuf))
       IN  /\ enBytes' = w.bytes
           /\ enPc' = IF w.threw THEN "threw" ELSE "samples"
    /\ UNCHANGED <<enBuf, enFormat, enPos, enBlob>>
    /\ UNCHANGED notEn

\* one pass of: while (pos < buffer.length) { for each channel ...; pos++ }
EncodeFrame ==
    /\ enPc = "samples" /\ enPos < enBuf.length
    /\ LET w == WriteAll(enBytes, FrameWrites(enBuf, enPos), AllocatedLength(enBuf))
       IN  /\ enBytes' = w.bytes
           /\ IF w.threw THEN enPc' = "threw" /\ UNCHANGED enPos
              ELSE enPos' = enPos + 1 /\ UNCHANGED enPc
    /\ UNCHANGED <<enBuf, enFormat, enBlob>>
    /\ UNCHANGED notEn

\* the loop is left; return new Blob([bufferArray], { type }): the whole
\* allocation, bytes never written being 0
EncodeReturn ==
    /\ enPc = "samples" /\ enPos >= enBuf.length
    /\ enBlob' = [bytes |-> enBytes \o [k \in 1..(AllocatedLength(enBuf) - Len(enBytes)) |-> 0],
                  type |-> BlobType(enFormat)]
    /\ enPc' = "done"
    /\ UNCHANGED <<enBuf, enFormat, enBytes, enPos>>
    /\ UNCHANGED notEn

NextEncode == EncodeHeader \/ EncodeFrame \/ EncodeReturn

---------------------------------------------------------------------------
(* detectBpmByAutocorrelation, and analyzeBpm in accurate mode around it.  *)
(* Sample values are in tenths of full scale, energies their squares.      *)

\* const targetFs = 100
targetFs == 100
\* let bestLag = 60
InitialLag == 60

\* Math.floor(sampleRate / targetFs)
EnvRatio(sampleRate) == sampleRate \div targetFs
\* Math.floor(data.length / ratio)
EnvLength(length, sampleRate) == length \div EnvRatio(sampleRate)

\* energy += val * val for the n samples from data[first] on
RECURSIVE BlockEnergy(_, _, _)
BlockEnergy(data, first, n) ==
    IF n = 0 THEN 0
    ELSE data[first] * data[first] + BlockEnergy(data, first + 1, n - 1)

\* env after the first loop, which leaves its last element at 0
BlockEnergies(data, sampleRate) ==
    LET ratio == EnvRatio(sampleRate)
        envLength == EnvLength(Len(data), sampleRate)
    IN  [i \in 1..envLength |->
            IF i < envLength THEN BlockEnergy(data, (i - 1) * ratio + 1, ratio) ELSE 0]

\* env[i] = Math.max(0, env[i] - env[i - 1]), from the last index down to 1
OnsetEnvelope(data, sampleRate) ==
    LET e == BlockEnergies(data, sampleRate)
    IN  [i \in 1..Len(e) |->
            IF i = 1 THEN e[1] ELSE IF e[i] > e[i - 1] THEN e[i] - e[i - 1] ELSE 0]

\* sum of env[i] * env[i + lag] for 0 <= i < env.length - lag, added up
\* over the indices whose product is not 0
RECURSIVE SumProducts(_, _, _)
SumProducts(env, lag, indices) ==
    IF indices = {} THEN 0
    ELSE LET i == CHOOSE k \in indices : TRUE
         IN  env[i] * env[i + lag] + SumProducts(env, lag, indices \ {i})
LagScore(env, lag) ==
    SumProducts(env, lag, {i \in 1..(Len(env) - lag) : env[i] # 0 /\ env[i + lag] # 0})

\* the buffers analysed: 1.5 s and 1.2 s click tracks at 100 Hz and 250 Hz,
\* silent (amp 0), constant (width = period) or one click per period
NoSignal == [sampleRate |-> 0, period |-> 1, phase |-> 0, width |-> 0, amp |-> 0,
             length |-> 0]
AutoPeriods == {20, 30, 45, 50, 100, 120}
AutoAmps == {0, 5, 10}
AutoSignals ==
    {[sampleRate |-> sr, period |-> (sr \div targetFs) * p, phase |-> ph,
      width |-> IF w = 0 THEN (sr \div targetFs) * p ELSE w, amp |-> a,
      length |-> (sr \div targetFs) * (IF sr = 100 THEN 150 ELSE 120)] :
        sr \in {100, 250}, p \in AutoPeriods, ph \in {0, 3}, w \in {0, 1}, a \in AutoAmps}

InitAuto ==
    /\ acPc = "envelope"
    /\ acSig \in AutoSignals
    /\ acEnv = <<>>
    /\ acLag = 0
    /\ acMaxAuto = 0
    /\ acBestLag = 0
    /\ acRaw = <<>>
    /\ acInfo = NoEstimate

\* the two envelope loops; let maxAuto = 0; let bestLag = 60
AutoEnvelope ==
    /\ acPc = "envelope"
    /\ acEnv' = OnsetEnvelope(ClickData(acSig), acSig.sampleRate)
    /\ acMaxAuto' = 0
    /\ acBestLag' = InitialLag
    /\ acLag' = MinLag
    /\ acPc' = "lags"
    /\ UNCHANGED <<acSig, acRaw, acInfo>>
    /\ UNCHANGED notAc

\* one pass of: for (let lag = 30; lag <= 100; lag++) { ... }
AutoLag ==
    /\ acPc = "lags" /\ acLag <= MaxLag
    /\ LET sum == LagScore(acEnv, acLag)
       IN  IF sum > acMaxAuto
           THEN acMaxAuto' = sum /\ acBestLag' = acLag
           ELSE UNCHANGED <<acMaxAuto, acBestLag>>
    /\ acLag' = acLag + 1
    /\ UNCHANGED <<acPc, acSig, acEnv, acRaw, acInfo>>
    /\ UNCHANGED notAc

\* return (60 * targetFs) / bestLag; if (bpm > 40 && bpm < 250) rawResults.push(bpm)
AutoReturn ==
    /\ acPc = "lags" /\ acLag > MaxLag
    /\ LET bpm == Rat(60 * targetFs, acBestLag)
       IN  acRaw' = IF AcceptAccurate(bpm) THEN <<bpm>> ELSE <<>>
    /\ acPc' = "aggregate"
    /\ UNCHANGED <<acSig, acEnv, acLag, acMaxAuto, acBestLag, acInfo>>
    /\ UNCHANGED notAc

\* the rest of analyzeBpm: the fallback or the aggregation
AutoAggregate ==
    /\ acPc = "aggregate"
    /\ acInfo' = IF acRaw = <<>> THEN FallbackEstimate("accurate")
                 ELSE AggregateEstimate(acRaw, "accurate", <<"Full-Track Autocorrelation">>)
    /\ acPc' = "done"
    /\ UNCHANGED <<acSig, acEnv, acLag, acMaxAuto, acBestLag, acRaw>>
    /\ UNCHANGED notAc

NextAuto == AutoEnvelope \/ AutoLag \/ AutoReturn \/ AutoAggregate

---------------------------------------------------------------------------
(* The loops of timeStretch, pass by pass.  Only positions and indices     *)
(* are kept: which samples a pass reads and writes, not their values.      *)

MaxGrainPasses == 100

\* no call, and the empty index range
NoStretchCall == [sampleRate |-> 0, length |-> 0, numberOfChannels |-> 0, rate |-> RInt(1)]
NoIndices == <<0, -1>>

\* const inPos = Math.floor(outPos * rate)
GrainInPos(outPos, r) == RFloor(RMul(RInt(outPos), r))

\* the number of passes of the inner for loop: i < grainSize and
\* outPos + i < outputLength
GrainWrites(outPos, grainSize, outputLength) ==
    IF outputLength - outPos < grainSize THEN outputLength - outPos ELSE grainSize

\* while (outPos < outputLength) { ...; if (inPos + grainSize > inputLength) break; ...
GrainLoopContinues(outPos, call) ==
    /\ outPos < StretchedLength(call.length, call.rate)
    /\ GrainInPos(outPos, call.rate) + GrainSize(call.sampleRate) <= call.length

\* buffers of 7 to 1000 frames at sample rates whose grain has 0, 1, 2, 3,
\* 180 and 480 samples
GrainBuffers == {<<16, 7>>, <<20, 7>>, <<33, 40>>, <<34, 40>>, <<50, 40>>,
                 <<3000, 400>>, <<8000, 1000>>}
GrainRates == {RInt(2), Rat(1, 2), Rat(3, 2), Rat(99, 100), Rat(101, 100),
               Rat(1005, 1000), RInt(12)}

InitGrains ==
    /\ glPc = "call"
    /\ \E b \in GrainBuffers, ch \in 1..2, r \in GrainRates :
          glIn = [sampleRate |-> b[1], length |-> b[2], numberOfChannels |-> ch,
                  rate |-> r]
    /\ glChannel = 0
    /\ glOutPos = 0
    /\ glPasses = 0
    /\ glRead = NoIndices
    /\ glWrite = NoIndices

\* the no-op return; the OfflineAudioContext, which throws for a length of
\* 0; grainSize and outputStride
GrainsCall ==
    /\ glPc = "call"
    /\ glPc' = IF StretchIsNoOp(glIn.rate) THEN "done"
               ELSE IF StretchedLength(glIn.length, glIn.rate) = 0 THEN "threw"
               ELSE "channel"
    /\ UNCHANGED <<glIn, glChannel, glOutPos, glPasses, glRead, glWrite>>
    /\ UNCHANGED notGl

\* for (let channel = 0; channel < numChannels; channel++) { let outPos = 0; ...
GrainsChannel ==
    /\ glPc = "channel"
    /\ IF glChannel < glIn.numberOfChannels
       THEN /\ glOutPos' = 0
            /\ glPasses' = 0
            /\ glPc' = "grains"
       ELSE /\ glPc' = "done"
            /\ UNCHANGED <<glOutPos, glPasses>>
    /\ UNCHANGED <<glIn, glChannel, glRead, glWrite>>
    /\ UNCHANGED notGl

\* one pass of the while loop: the grain is added, outPos += outputStride
GrainPass ==
    /\ glPc = "grains" /\ GrainLoopContinues(glOutPos, glIn)
    /\ glPasses < MaxGrainPasses
    /\ LET grainSize == GrainSize(glIn.sampleRate)
           n == GrainWrites(glOutPos, grainSize, StretchedLength(glIn.length, glIn.rate))
           inPos == GrainInPos(glOutPos, glIn.rate)
       IN  /\ glRead' = IF n = 0 THEN NoIndices ELSE <<inPos, inPos + n - 1>>
           /\ glWrite' = IF n = 0 THEN NoIndices ELSE <<glOutPos, glOutPos + n - 1>>
           /\ glOutPos' = glOutPos + OutputStride(grainSize)
    /\ glPasses' = glPasses + 1
    /\ UNCHANGED <<glPc, glIn, glChannel>>
    /\ UNCHANGED notGl

\* the while loop is left: its condition is false or the break is taken
GrainsLeave ==
    /\ glPc = "grains" /\ ~GrainLoopContinues(glOutPos, glIn)
    /\ glChannel' = glChannel + 1
    /\ glPc' = "channel"
    /\ UNCHANGED <<glIn, glOutPos, glPasses, glRead, glWrite>>
    /\ UNCHANGED notGl

NextGrains == GrainsCall \/ GrainsChannel \/ GrainPass \/ GrainsLeave

---------------------------------------------------------------------------
(* App: the detection-mode switch with its re-analysis effect, and the     *)
(* music upload.  A file is an id; the buffer decoded from it carries the  *)
(* same id.  A tempo estimate is kept as the mode it was computed in and   *)
(* the buffer it was computed from.                                        *)

MaxAnalyses == 3

DetectionModes == {"fast", "accurate"}
\* the files offered for upload; the third decodes to 600 s or more
AppFiles == {1, 2, 3}
LongFiles == {3}

\* musicTrack === null
NoTrack == [present |-> FALSE, file |-> 0, hasBpmInfo |-> FALSE, modeUsed |-> "none",
            analysedFile |-> 0]

\* the AudioMetadata decodeFile resolves to: bpmInfo only for a duration
\* below 600 s
DecodedTrack(file, mode) ==
    IF file \in LongFiles
    THEN [present |-> TRUE, file |-> file, hasBpmInfo |-> FALSE, modeUsed |-> "none",
          analysedFile |-> 0]
    ELSE [present |-> TRUE, file |-> file, hasBpmInfo |-> TRUE, modeUsed |-> mode,
          analysedFile |-> file]

\* prev => prev ? { ...prev, bpmInfo } : null
WithBpmInfo(prev, mode, file) ==
    IF prev.present
    THEN [prev EXCEPT !.hasBpmInfo = TRUE, !.modeUsed = mode, !.analysedFile = file]
    ELSE prev

Without(s, i) == SubSeq(s, 1, i - 1) \o SubSeq(s, i + 1, Len(s))

\* the state after the first render: detectionMode 'accurate', no track;
\* the effect found no track to analyse
InitApp ==
    /\ apPc = "mounted"
    /\ apMode = "accurate"
    /\ apTrack = NoTrack
    /\ apPending = <<>>
    /\ apStarted = 0
    /\ apAnalyzing = FALSE

\* onClick={() => setDetectionMode(m)} for the other mode, and the effect
\* that the change of detectionMode runs
SetDetectionMode ==
    /\ apPc = "mounted"
    /\ \E m \in DetectionModes \ {apMode} :
          /\ apMode' = m
          /\ IF apTrack.present
             THEN /\ apStarted < MaxAnalyses
                  /\ apPending' = Append(apPending,
                        [kind |-> "reanalyze", mode |-> m, file |-> apTrack.file])
                  /\ apStarted' = apStarted + 1
                  /\ apAnalyzing' = TRUE
             ELSE UNCHANGED <<apPending, apStarted, apAnalyzing>>
    /\ UNCHANGED <<apPc, apTrack>>
    /\ UNCHANGED notAp

\* handleMusicUpload up to its await: decodeFile(file, detectionMode, ...)
HandleMusicUpload ==
    /\ apPc = "mounted" /\ apStarted < MaxAnalyses
    /\ \E f \in AppFiles :
          apPending' = Append(apPending, [kind |-> "upload", mode |-> apMode, file |-> f])
    /\ apStarted' = apStarted + 1
    /\ apAnalyzing' = TRUE
    /\ UNCHANGED <<apPc, apMode, apTrack>>
    /\ UNCHANGED notAp

\* decodeFile resolved: setMusicTrack(meta); setBoundaries(...); setIsAnalyzing(false)
UploadDone ==
    /\ \E i \in 1..Len(apPending) :
          /\ apPending[i].kind = "upload"
          /\ apTrack' = DecodedTrack(apPending[i].file, apPending[i].mode)
          /\ apPending' = Without(apPending, i)
    /\ apAnalyzing' = FALSE
    /\ UNCHANGED <<apPc, apMode, apStarted>>
    /\ UNCHANGED notAp

\* decodeFile rejected: catch (err) { console.error(err) }; setIsAnalyzing(false)
UploadFailed ==
    /\ \E i \in 1..Len(apPending) :
          /\ apPending[i].kind = "upload"
          /\ apPending' = Without(apPending, i)
    /\ apAnalyzing' = FALSE
    /\ UNCHANGED <<apPc, apMode, apTrack, apStarted>>
    /\ UNCHANGED notAp

\* analyzeBpm of the effect resolved: setMusicTrack(prev => ...); setIsAnalyzing(false)
ReanalysisDone ==
    /\ \E i \in 1..Len(apPending) :
          /\ apPending[i].kind = "reanalyze"
          /\ apTrack' = WithBpmInfo(apTrack, apPending[i].mode, apPending[i].file)
          /\ apPending' = Without(apPending, i)
    /\ apAnalyzing' = FALSE
    /\ UNCHANGED <<apPc, apMode, apStarted>>
    /\ UNCHANGED notAp

NextApp ==
    \/ SetDetectionMode
    \/ HandleMusicUpload
    \/ UploadDone
    \/ UploadFailed
    \/ ReanalysisDone

---------------------------------------------------------------------------
(* The specifications: each runs one component from its initial states     *)
(* and holds the other components idle.                                    *)

BdIdle ==
    /\ bdPc = "idle"
    /\ bdSig = [sampleRate |-> 10, runs |-> <<>>]
    /\ bdOut = NoBounds

BpmIdle ==
    /\ bpmPc = "idle" /\ bpmMode = "fast" /\ bpmHop = 0 /\ rawResults = <<>>
    /\ bpmSupplied = <<>> /\ algorithmsUsed = <<>> /\ bpmInfo = NoEstimate

PkIdle ==
    /\ pkPc = "idle"
    /\ pkSig = [sampleRate |-> PeakSampleRate, period |-> 1, phase |-> 0,
                width |-> 0, amp |-> 0, clicks |-> 0, length |-> 0]
    /\ pkTempos = <<>>

PrIdle ==
    /\ prPc = "idle"
    /\ focus = [length |-> 0, sampleRate |-> 0, peak |-> RZero]
    /\ music = [length |-> 0, sampleRate |-> 0, runs |-> <<>>, peak |-> RZero,
                bpmCorrected |-> RZero]
    /\ opts = [targetDurationMinutes |-> RZero, musicVolumeDb |-> 0,
               focusVolumeDb |-> 0, crossfadeDuration |-> RZero, targetBpm |-> RZero,
               sourceBpmOverride |-> RZero, manualBoundaries |-> NoManual]
    /\ rate = RInt(1)
    /\ musicBuffer = NoBuffer
    /\ ctx = NoCtx
    /\ sched = <<>>
    /\ cur = RZero
    /\ bounds = NoBounds
    /\ progressLog = <<>>
    /\ rendered = NoRendered

TsIdle ==
    /\ tsPc = "idle" /\ tsIn = NoAudioBuffer /\ tsRate = RInt(1) /\ tsOut = NoAudioBuffer

DcIdle == dcPc = "idle" /\ dcFile = NoFile /\ dcMeta = NoMetadata

EnIdle ==
    /\ enPc = "idle" /\ enBuf = NoAudioBuffer /\ enFormat = "wav_lossless"
    /\ enBytes = <<>> /\ enPos = 0 /\ enBlob = NoBlob

AcIdle ==
    /\ acPc = "idle" /\ acSig = NoSignal /\ acEnv = <<>> /\ acLag = 0
    /\ acMaxAuto = 0 /\ acBestLag = 0 /\ acRaw = <<>> /\ acInfo = NoEstimate

GlIdle ==
    /\ glPc = "idle" /\ glIn = NoStretchCall /\ glChannel = 0 /\ glOutPos = 0
    /\ glPasses = 0 /\ glRead = NoIndices /\ glWrite = NoIndices

ApIdle ==
    /\ apPc = "idle" /\ apMode = "accurate" /\ apTrack = NoTrack
    /\ apPending = <<>> /\ apStarted = 0 /\ apAnalyzing = FALSE

LaterIdle == AcIdle /\ GlIdle /\ ApIdle
FirstIdle == BdIdle /\ BpmIdle /\ PkIdle /\ PrIdle /\ TsIdle /\ DcIdle /\ EnIdle

\* the components added to the first four are idle
RestIdle == TsIdle /\ DcIdle /\ EnIdle /\ LaterIdle

InitSpecBounds == InitBounds /\ BpmIdle /\ PkIdle /\ PrIdle /\ RestIdle
SpecBounds == InitSpecBounds /\ [][NextBounds]_vars

InitSpecBpm == InitBpm /\ BdIdle /\ PkIdle /\ PrIdle /\ RestIdle
SpecBpm == InitSpecBpm /\ [][NextBpm]_vars

InitSpecPeak == InitPeak /\ BdIdle /\ BpmIdle /\ PrIdle /\ RestIdle
SpecPeak == InitSpecPeak /\ [][NextPeak]_vars

\* process(), the render entrypoint
InitSpec == Init /\ BdIdle /\ BpmIdle /\ PkIdle /\ RestIdle
Spec == InitSpec /\ [][Next]_vars

\* timeStretch
InitSpecStretch ==
    InitStretch /\ BdIdle /\ BpmIdle /\ PkIdle /\ PrIdle /\ DcIdle /\ EnIdle /\ LaterIdle
SpecStretch == InitSpecStretch /\ [][NextStretch]_vars

\* decodeFile
InitSpecDecode ==
    InitDecode /\ BdIdle /\ BpmIdle /\ PkIdle /\ PrIdle /\ TsIdle /\ EnIdle /\ LaterIdle
SpecDecode == InitSpecDecode /\ [][NextDecode]_vars

\* analyzeBpm in accurate mode, with the autocorrelation estimator
InitSpecAuto == InitAuto /\ FirstIdle /\ GlIdle /\ ApIdle
SpecAuto == InitSpecAuto /\ [][NextAuto]_vars

\* the loops of timeStretch
InitSpecGrains == InitGrains /\ FirstIdle /\ AcIdle /\ ApIdle
SpecGrains == InitSpecGrains /\ [][NextGrains]_vars

\* App: mode switches, uploads and the completions of their analyses
InitSpecApp == InitApp /\ FirstIdle /\ AcIdle /\ GlIdle
SpecApp == InitSpecApp /\ [][NextApp]_vars

\* audioBufferToLossless
InitSpecEncode ==
    InitEncode /\ BdIdle /\ BpmIdle /\ PkIdle /\ PrIdle /\ TsIdle /\ DcIdle /\ LaterIdle
SpecEncode == InitSpecEncode /\ [][NextEncode]_vars

---------------------------------------------------------------------------
(* Claims about detectBoundaries (checked under SpecBounds)                *)

BdDuration == BufDuration(RunsLength(bdSig.runs), bdSig.sampleRate)

\* C2: detectBoundaries returns a value such that detected = true implies
\* 0 < introEnd < outroStart < duration, and detected = false implies
\* introEnd = 0 and outroStart = duration.
C2_BoundariesInvariant ==
    bdPc = "done" =>
        /\ bdOut.detected =>
              /\ RLt(RZero, bdOut.introEnd)
              /\ RLt(bdOut.introEnd, bdOut.outroStart)
              /\ RLt(bdOut.outroStart, BdDuration)
        /\ ~bdOut.detected =>
              /\ bdOut.introEnd = RZero
              /\ bdOut.outroStart = BdDuration

\* a call that detected a loop region
C2_Witness == bdPc = "done" /\ bdOut.detected

\* every 100 ms chunk of the buffer has the same RMS
UniformRms ==
    LET rms == RmsValues(RunsData(bdSig.runs), ChunkSize(bdSig.sampleRate))
    IN  \A i \in 1..Len(rms) : RmsLe(rms[i], rms[1]) /\ RmsLe(rms[1], rms[i])

\* C10: on a signal whose 100 ms chunks all have the same RMS,
\* detectBoundaries returns detected = false, introEnd = 0 and
\* outroStart = duration, whatever the duration.
C10_UniformNotDetected ==
    (bdPc = "done" /\ UniformRms) =>
        /\ ~bdOut.detected
        /\ bdOut.introEnd = RZero
        /\ bdOut.outroStart = BdDuration

\* a uniform-RMS buffer longer than both 10 s margins whose samples are not
\* all equal
C10_Witness ==
    /\ bdPc = "done"
    /\ UniformRms
    /\ RLt(RInt(20), BdDuration)
    /\ \E i \in 1..Len(bdSig.runs) : bdSig.runs[i].level # bdSig.runs[1].level

---------------------------------------------------------------------------
(* Claims about analyzeBpm (checked under SpecBpm)                         *)

\* C1: octave correction is total: for every non-empty list of accepted
\* candidates, in either mode, the returned corrected value lies in
\* [60, 200] after the halving and doubling loops and the rounding to one
\* decimal, and the loops terminate (here: after at most one iteration in
\* all, the candidates lying in [40, 300]).
C1_OctaveCorrectionTotal ==
    (bpmPc = "done" /\ bpmSupplied # <<>>) =>
        LET medianBpm == MedianOf(bpmInfo.filteredPasses)
        IN  /\ RLe(RInt(60), bpmInfo.corrected)
            /\ RLe(bpmInfo.corrected, RInt(200))
            /\ HalveCount(medianBpm) + DoubleCount(HalveWhile(medianBpm)) <= 1

\* an estimate whose median was above 200 and was halved
C1_Witness ==
    /\ bpmPc = "done"
    /\ bpmSupplied # <<>>
    /\ RLt(RInt(200), bpmInfo.raw)
    /\ RLt(bpmInfo.corrected, bpmInfo.raw)

\* s with its i-th and j-th entries exchanged
SwapSeq(s, i, j) ==
    [k \in 1..Len(s) |-> IF k = i THEN s[j] ELSE IF k = j THEN s[i] ELSE s[k]]

\* C9: the aggregation is deterministic and independent of the order in
\* which the candidates are supplied: aggregating the supplied candidates
\* again, as supplied or with any two of them exchanged, returns the
\* estimate that was returned (every field of it).
C9_AggregationOrderIndependent ==
    (bpmPc = "done" /\ bpmSupplied # <<>>) =>
        \A i \in 1..Len(bpmSupplied) : \A j \in i..Len(bpmSupplied) :
            AggregateEstimate(SwapSeq(bpmSupplied, i, j), bpmMode, algorithmsUsed) = bpmInfo

\* an estimate aggregated from candidates that were not supplied in
\* ascending order and of which the Tukey fence rejected one
C9_Witness ==
    /\ bpmPc = "done"
    /\ \E i \in 1..(Len(bpmSupplied) - 1) : RLt(bpmSupplied[i + 1], bpmSupplied[i])
    /\ Len(bpmInfo.filteredPasses) < Len(bpmInfo.allPasses)


\* C13: when no raw tempo candidate was accepted, analyzeBpm returns the
\* fixed fallback: raw = corrected = 120, confidence low, stdDev 0, empty
\* candidates, allPasses and filteredPasses, modeUsed the requested mode.
C13_FallbackEstimate ==
    (bpmPc = "done" /\ bpmSupplied = <<>>) =>
        /\ bpmInfo.raw = RInt(120) /\ bpmInfo.corrected = RInt(120)
        /\ bpmInfo.confidence = "low" /\ bpmInfo.stdDev = RZero
        /\ bpmInfo.candidates = <<>> /\ bpmInfo.allPasses = <<>>
        /\ bpmInfo.filteredPasses = <<>>
        /\ bpmInfo.modeUsed = bpmMode

\* all six fast passes ran, none was accepted, and the call returned
C13_Witness ==
    /\ bpmPc = "done" /\ bpmMode = "fast"
    /\ bpmHop = Len(HopSizesMs) /\ bpmSupplied = <<>>
    /\ bpmInfo.algorithmsUsed = <<"Fallback">>

\* the values the claim allows as alternates of a corrected tempo
EligibleAlternates(fc) ==
    { c \in { Round1(RDiv(fc, RInt(2))), Round1(RMul(fc, Rat(3, 2))),
              Round1(RMul(fc, RInt(2))) } :
        /\ RLe(RInt(40), c) /\ RLe(c, RInt(220))
        /\ RLt(RInt(2), RAbs(RSub(c, fc))) }

\* the candidates are at most three, distinct, never the corrected value,
\* and exactly the eligible alternates
AlternatesExact ==
    LET c == bpmInfo.candidates
    IN  /\ Len(c) <= 3
        /\ \A i, j \in 1..Len(c) : c[i] = c[j] => i = j
        /\ \A i \in 1..Len(c) : c[i] # bpmInfo.corrected
        /\ {c[i] : i \in 1..Len(c)} = EligibleAlternates(bpmInfo.corrected)

\* C16 (as stated): every estimate analyzeBpm returns has exactly the
\* eligible alternates of its corrected value as candidates.
C16_CandidatesExactAlways == bpmPc = "done" => AlternatesExact

\* C16 (amended): an estimate aggregated from at least one accepted tempo
\* has exactly the eligible alternates of its corrected value as candidates.
C16_CandidatesExactWhenAggregated ==
    (bpmPc = "done" /\ bpmSupplied # <<>>) => AlternatesExact

\* an aggregated estimate of 120 whose alternate 240 was dropped
C16_Witness ==
    /\ bpmPc = "done" /\ bpmSupplied # <<>>
    /\ bpmInfo.corrected = RInt(120)
    /\ bpmInfo.candidates = <<RInt(60), RInt(180)>>

---------------------------------------------------------------------------
(* Claims about detectBpmByPeakClustering (checked under SpecPeak)         *)

\* the track analysed has one single-sample click every 0.5 s, each above
\* 0.15, and enough clicks for five peaks
ClickTrack120 ==
    /\ 2 * pkSig.period = pkSig.sampleRate
    /\ pkSig.amp > 15
    /\ pkSig.width = 1
    /\ pkSig.clicks >= 5

\* C6: for a click track with one click every 0.5 s (120 BPM), every click
\* above 0.15 and seen by its block, the estimator returns a tempo within
\* 2 BPM of 120 for each of the six hop sizes.
C6_ClickTrackWithin2Bpm ==
    (pkPc = "done" /\ ClickTrack120) =>
        \A h \in 1..Len(HopSizesMs) :
            RLe(RAbs(RSub(pkTempos[h], RInt(120))), RInt(2))

---------------------------------------------------------------------------
(* Claims about process() (checked under Spec)                             *)

\* the end-to-end scenario: foundation 30 s at amplitude 0.5, music 40 s at
\* full scale with boundaries (5, 35), target 70 s, crossfade 3 s, 0 dB, no
\* tempo change
EndToEndScenario ==
    /\ focus = [length |-> 600, sampleRate |-> 20, peak |-> Rat(1, 2)]
    /\ music.length = 400
    /\ opts.manualBoundaries = [present |-> TRUE, introEnd |-> RInt(5), outroStart |-> RInt(35)]
    /\ opts.targetDurationMinutes = Rat(7, 6)
    /\ opts.crossfadeDuration = RInt(3)
    /\ opts.musicVolumeDb = 0 /\ opts.focusVolumeDb = 0
    /\ opts.targetBpm = RZero

\* C8: in the end-to-end scenario no output sample magnitude exceeds 0.89
\* at any output time.
C8_MixWithinCeiling ==
    (prPc = "done" /\ EndToEndScenario) =>
        \A n \in 0..(rendered.length - 1) :
            RLe(RAbs(MixAt(Rat(n, rendered.sampleRate))), MasterGain)

\* C3: the values passed to the progress callback never decrease, every
\* value is in 0..100, and when process() has returned its result the last
\* value delivered is 100.
C3_ProgressMonotoneTo100 ==
    /\ \A i \in 1..Len(progressLog) : progressLog[i] \in 0..100
    /\ \A i \in 1..(Len(progressLog) - 1) : progressLog[i] <= progressLog[i + 1]
    /\ prPc = "done" => (progressLog # <<>> /\ progressLog[Len(progressLog)] = 100)

\* a returned run that went through the time-stretch step
C3_Witness ==
    /\ prPc = "done"
    /\ musicBuffer.stretched
    /\ Len(progressLog) = 6

\* the durations the crossfade is applied to: the foundation, and the
\* intro, loop segment and outro of the music at the boundaries process()
\* hands to renderMusicTrack
SegmentDurations ==
    LET r == RateOf(music, opts)
        b == IF StretchRequested(r) THEN timeStretch(BufferOf(music), r) ELSE BufferOf(music)
        bnd == StretchedBounds(music, opts, r)
    IN  { Duration(BufferOf(focus)), EIntroDur(bnd, PlaybackRate),
          ELoopDur(bnd, PlaybackRate), EOutroDur(b, bnd, PlaybackRate) }

InvalidCrossfade == \E d \in SegmentDurations : RLe(d, Cf)

\* C4: when the crossfade is not smaller than every segment duration,
\* process() fails before scheduling anything: no node and no gain event
\* is ever scheduled, and no result is returned.
C4_InvalidCrossfadeSchedulesNothing ==
    InvalidCrossfade => (sched = <<>> /\ prPc # "done")

\* the boundaries handed to renderMusicTrack are the failed-detection value
FailedDetectionBounds ==
    /\ prPc \notin {"start", "stretch", "ctx", "focusLoop", "bounds"}
    /\ bounds.introEnd = RZero
    /\ bounds.outroStart = Duration(musicBuffer)

\* C5: with failed-detection boundaries (introEnd 0, outroStart the
\* duration), found by process() or passed as manualBoundaries, and a
\* crossfade shorter than both tracks, no scheduling call aborts the
\* render and the music loop is left.
C5_FailedDetectionStillRenders ==
    (/\ FailedDetectionBounds
     /\ RLt(Cf, Duration(BufferOf(focus)))
     /\ RLt(Cf, Duration(musicBuffer)))
        => (prPc # "threw" /\ Len(sched) < MaxNodes)

\* C7: the rendered mix has floor(targetDurationSeconds * outputSampleRate)
\* frames, outputSampleRate being the larger of the two input sample rates,
\* and 2 channels.
C7_RenderedLength ==
    prPc = "done" =>
        /\ rendered.length =
              RFloor(RMul(RMul(opts.targetDurationMinutes, RInt(60)),
                          RInt(IF focus.sampleRate >= music.sampleRate
                               THEN focus.sampleRate ELSE music.sampleRate)))
        /\ rendered.channels = 2

\* a returned render whose target (60/7 s) is shorter than both sources
\* and not a whole number of frames, with a stretched music buffer
C7_Witness ==
    /\ prPc = "done"
    /\ opts.targetDurationMinutes = Rat(1, 7)
    /\ focus.length = 600 /\ focus.sampleRate = 20
    /\ musicBuffer.stretched
    /\ rendered.length = 171

\* the node made no call that threw: its source was started
Complete(node) == HasCall(node, "start")

\* the fade-in and fade-out ramps of a loop repetition, as <<from, to>>
LoopFadeIn(node) == <<node.calls[1].t, node.calls[2].t>>
LoopFadeOut(node) == <<node.calls[3].t, node.calls[4].t>>

\* the node's gain is above 0 and its source sounding at time t
Audible(node, t) == Sounding(node, t) /\ RLt(RZero, GainAt(node, t))

\* C19: the fade-in ramp of every loop repetition of the music track
\* occupies the output interval of the fade-out ramp of the repetition
\* before it, and outside that window at most one of the two is audible.
C19_LoopRepetitionsShareOneWindow ==
    \A k \in 1..(Len(sched) - 1) :
        (/\ sched[k].track = "loop" /\ sched[k + 1].track = "loop"
         /\ Complete(sched[k]) /\ Complete(sched[k + 1])) =>
            /\ LoopFadeIn(sched[k + 1]) = LoopFadeOut(sched[k])
            /\ ~(/\ Audible(sched[k], LoopFadeIn(sched[k + 1])[2])
                 /\ Audible(sched[k + 1], LoopFadeIn(sched[k + 1])[2])
                 /\ RLt(LoopFadeIn(sched[k + 1])[2], LoopFadeOut(sched[k])[1]))

\* the node has the gain call `a` directly followed by the gain call `b`
HasCallPair(node, a, b) ==
    \E i \in 1..(Len(node.calls) - 1) : node.calls[i] = a /\ node.calls[i + 1] = b

\* C20: with a crossfade shorter than the foundation, the first copy
\* starts at 0 at the target gain; every later copy starts at the previous
\* start + duration - crossfade and ramps in from 0 over one crossfade
\* window while the previous copy ramps out to 0 over that same window;
\* no copy starts at or after the target duration.
C20_FoundationPlacement ==
    RLt(Cf, Duration(BufferOf(focus))) =>
        \A k \in 1..Len(sched) :
            (sched[k].track = "focus" /\ Complete(sched[k])) =>
                LET start == CallOf(sched[k], "start").t
                    target == DbToGain(opts.focusVolumeDb)
                IN  /\ RLt(start, TotalDur)
                    /\ k = 1 => (start = RZero /\ sched[k].calls[1] = SetCall(target, RZero))
                    /\ k > 1 =>
                         /\ start = RSub(RAdd(CallOf(sched[k - 1], "start").t,
                                              Duration(BufferOf(focus))), Cf)
                         /\ HasCallPair(sched[k], SetCall(RZero, start),
                                        RampCall(target, RAdd(start, Cf)))
                         /\ HasCallPair(sched[k - 1], SetCall(target, start),
                                        RampCall(RZero, RAdd(start, Cf)))

---------------------------------------------------------------------------
(* Claims about timeStretch (checked under SpecStretch)                    *)

\* C11: with |rate - 1| < 0.01, timeStretch returns the input buffer
\* itself: the same object with the same samples.
C11_NoOpReturnsInput ==
    (tsPc = "done" /\ RLt(RAbs(RSub(tsRate, RInt(1))), Rat(1, 100))) => tsOut = tsIn

\* a nine-sample stereo buffer returned as it is for the rate 1.005
C11_Witness ==
    /\ tsPc = "done" /\ tsRate = Rat(1005, 1000)
    /\ tsIn.length = MaxStretchLen /\ tsIn.numberOfChannels = 2
    /\ tsOut.id = tsIn.id /\ tsOut.data = tsIn.data

\* C12: for a rate outside the threshold, the buffer timeStretch returns
\* has the channel count and sample rate of the input and exactly
\* floor(inputLength / rate) samples per channel; for the rate 2 that is
\* half the input length.
C12_StretchedLength ==
    (tsPc = "done" /\ ~RLt(RAbs(RSub(tsRate, RInt(1))), Rat(1, 100))) =>
        /\ tsOut.numberOfChannels = tsIn.numberOfChannels
        /\ tsOut.sampleRate = tsIn.sampleRate
        /\ tsOut.length = RFloor(RDiv(RInt(tsIn.length), tsRate))
        /\ \A c \in 1..tsOut.numberOfChannels : Len(tsOut.data[c]) = tsOut.length
        /\ tsRate = RInt(2) => tsOut.length = tsIn.length \div 2

\* seven samples stretched at rate 2 into three
C12_Witness ==
    /\ tsPc = "done" /\ tsRate = RInt(2)
    /\ tsIn.length = 7 /\ tsOut.length = 3
    /\ tsOut.id # tsIn.id

---------------------------------------------------------------------------
(* Claims about decodeFile (checked under SpecDecode)                      *)

\* C14: the frequency in the metadata decodeFile returns is absent or
\* strictly greater than 5, for any file name and any signal.
C14_FrequencyAbsentOrAbove5 ==
    dcPc = "done" =>
        (~dcMeta.frequency.present \/ RLt(RInt(5), dcMeta.frequency.value))

\* C15: the returned metadata has no tempo estimate if and only if the
\* signal is longer than 600 seconds.
C15_TempoSkippedIffLonger ==
    dcPc = "done" =>
        (~dcMeta.bpmInfo.present <=> RLt(RInt(600), dcMeta.duration))

---------------------------------------------------------------------------
(* Claims about audioBufferToLossless (checked under SpecEncode)           *)

\* C17: the bytes of the returned Blob are those the encoder emits for the
\* same buffer under each of the four export formats; the format decides
\* only the type label, audio/flac for flac_lossless and audio/wav otherwise.
C17_BytesIndependentOfFormat ==
    enPc = "done" =>
        /\ \A f \in ExportFormats : audioBufferToLossless(enBuf, f).bytes = enBlob.bytes
        /\ \A f \in ExportFormats :
              audioBufferToLossless(enBuf, f).type \in {"audio/flac", "audio/wav"}
        /\ enBlob.type = (IF enFormat = "flac_lossless" THEN "audio/flac" ELSE "audio/wav")

\* an MP3 request answered with the WAV bytes of a two-frame stereo buffer
C17_Witness ==
    /\ enPc = "done" /\ enFormat = "mp3_high"
    /\ enBuf.numberOfChannels = 2 /\ enBuf.length = MaxFrames
    /\ enBlob.type = "audio/wav"
    /\ enBlob.bytes = audioBufferToLossless(enBuf, "flac_lossless").bytes

\* the unsigned little-endian number in `size` bytes from byte offset `at`
RECURSIVE UIntAt(_, _, _)
UIntAt(bytes, at, size) ==
    IF size = 0 THEN 0 ELSE bytes[at + 1] + 256 * UIntAt(bytes, at + 1, size - 1)

\* C18: no write leaves the allocated buffer, and the Blob is a 44-byte
\* RIFF/WAVE header with the stated field values followed by frames x
\* channels 16-bit samples, frame by frame with the channels interleaved.
C18_CanonicalWav ==
    /\ enPc # "threw"
    /\ Len(enBytes) <= AllocatedLength(enBuf)
    /\ enPc = "done" =>
         LET b == enBlob.bytes
             nc == enBuf.numberOfChannels
             n == enBuf.length
         IN  /\ Len(b) = 44 + n * nc * 2
             /\ SubSeq(b, 1, 4) = <<82, 73, 70, 70>>          \* "RIFF"
             /\ UIntAt(b, 4, 4) = Len(b) - 8
             /\ SubSeq(b, 9, 16) = <<87, 65, 86, 69, 102, 109, 116, 32>>  \* "WAVEfmt "
             /\ UIntAt(b, 16, 4) = 16
             /\ UIntAt(b, 20, 2) = 1
             /\ UIntAt(b, 22, 2) = nc
             /\ UIntAt(b, 24, 4) = enBuf.sampleRate
             /\ UIntAt(b, 28, 4) = enBuf.sampleRate * 2 * nc
             /\ UIntAt(b, 32, 2) = 2 * nc
             /\ UIntAt(b, 34, 2) = 16
             /\ SubSeq(b, 37, 40) = <<100, 97, 116, 97>>      \* "data"
             /\ UIntAt(b, 40, 4) = n * nc * 2
             /\ \A pos \in 0..(n - 1), c \in 0..(nc - 1) :
                   LET x == enBuf.data[c + 1][pos + 1]
                       clamped == IF RLt(x, RInt(-1)) THEN RInt(-1)
                                  ELSE IF RLt(RInt(1), x) THEN RInt(1) ELSE x
                       \* the 16-bit sample as a signed number
                       raw == UIntAt(b, 44 + (pos * nc + c) * 2, 2)
                       signed == IF raw >= 32768 THEN raw - 65536 ELSE raw
                   IN  \* within one step of clamped * 32768 resp. 32767, toward zero
                       IF RLt(clamped, RZero)
                       THEN /\ RLe(RMul(clamped, RInt(32768)), RInt(signed))
                            /\ RLt(RInt(signed - 1), RMul(clamped, RInt(32768)))
                       ELSE /\ RLe(RInt(signed), RMul(clamped, RInt(32767)))
                            /\ RLt(RMul(clamped, RInt(32767)), RInt(signed + 1))

\* a stereo buffer of two frames encoded into 52 bytes, the second frame's
\* right-channel sample in the last two bytes
C18_Witness ==
    /\ enPc = "done"
    /\ enBuf.numberOfChannels = 2 /\ enBuf.length = 2 /\ enBuf.sampleRate = 48000
    /\ enBuf.data = << <<RInt(1), Rat(1, 3)>>, <<Rat(-3, 2), Rat(-1, 2)>> >>
    /\ Len(enBlob.bytes) = 52
    /\ SubSeq(enBlob.bytes, 45, 52) = <<255, 127, 0, 128, 170, 42, 0, 192>>

---------------------------------------------------------------------------
(* Claims about the schedules of renderLoopingTrack and renderMusicTrack   *)
(* (checked under Spec)                                                    *)

\* the foundation copy whose natural end is at or after the target duration
FinalCopy(node) ==
    /\ node.track = "focus" /\ Complete(node)
    /\ RLe(TotalDur, RAdd(CallOf(node, "start").t, Duration(BufferOf(focus))))

\* C21: the final foundation copy (the one whose natural end is at or
\* after targetDuration) falls silent at targetDuration and its gain
\* envelope has reached 0 at targetDuration.
C21_FinalCopyFadedOutAtTarget ==
    \A k \in 1..Len(sched) :
        FinalCopy(sched[k]) =>
            /\ SourceEnd(sched[k]) = TotalDur
            /\ GainAt(sched[k], TotalDur) = RZero


\* process() has handed boundaries to renderMusicTrack
BoundsHanded == bounds # NoBounds

\* C22: the boundaries handed to renderMusicTrack are the original
\* boundaries divided by the rate when the music buffer was time-stretched,
\* and the original boundaries themselves when the stretch was skipped.
C22_BoundsDividedIffStretched ==
    BoundsHanded =>
        LET origBounds == OrigBounds(music, opts)
        IN  IF musicBuffer.stretched
            THEN /\ bounds.introEnd = RDiv(origBounds.introEnd, rate)
                 /\ bounds.outroStart = RDiv(origBounds.outroStart, rate)
            ELSE /\ bounds.introEnd = origBounds.introEnd
                 /\ bounds.outroStart = origBounds.outroStart


\* renderMusicTrack has returned: the outro node is the last one scheduled
MusicScheduled == prPc \in {"render", "encode", "done"}

LoopNodes == {k \in 1..Len(sched) : sched[k].track = "loop"}
OutroNode == sched[Len(sched)]
\* the time a loop repetition is placed at: the end of its fade-in
PlacedAt(node) == node.calls[2].t

\* C23: the music schedule runs to targetDuration: every loop repetition
\* is placed while the remaining time exceeds the outro's duration, the
\* last repetition falls silent at targetDuration - outroDuration, the
\* outro starts one crossfade before the time the loop was left, from
\* source offset outroStart - crossfade, and ends exactly at
\* targetDuration when a repetition was scheduled and not before
\* targetDuration otherwise.
C23_MusicRunsToTarget ==
    MusicScheduled =>
        LET outroDuration == EOutroDur(musicBuffer, bounds, PlaybackRate)
            last == CHOOSE k \in LoopNodes : \A j \in LoopNodes : j <= k
        IN  /\ \A k \in LoopNodes :
                  RLt(outroDuration, RSub(TotalDur, PlacedAt(sched[k])))
            /\ OutroNode.track = "outro"
            /\ CallOf(OutroNode, "start").offset = RSub(bounds.outroStart, Cf)
            /\ CallOf(OutroNode, "start").t = RSub(cur, Cf)
            /\ IF LoopNodes # {}
               THEN /\ SourceEnd(sched[last]) = RSub(TotalDur, outroDuration)
                    /\ cur = RSub(TotalDur, outroDuration)
                    /\ SourceEnd(OutroNode) = TotalDur
               ELSE RLe(TotalDur, SourceEnd(OutroNode))

\* a returned render with three loop repetitions before the outro
C23_Witness ==
    /\ prPc = "done"
    /\ Cardinality(LoopNodes) = 3
    /\ SourceEnd(OutroNode) = TotalDur

\* a returned render whose intro already reaches past the loop end time
C23_WitnessNoLoop ==
    /\ prPc = "done"
    /\ LoopNodes = {}
    /\ RLt(TotalDur, SourceEnd(OutroNode))


\* a scheduling call was given a negative time, offset or duration (the
\* call threw; context and stretch failures happen before any node exists)
NegativeTimeScheduled == prPc = "threw" /\ sched # <<>>

\* the crossfade is smaller than every segment that has a duration: the
\* foundation and the intro, loop and outro segments that are not empty
CrossfadeBelowSegments ==
    \A d \in SegmentDurations : RLt(RZero, d) => RLt(Cf, d)

\* C24: every time value the renderer schedules in renderLoopingTrack and
\* renderMusicTrack is non-negative, for the boundaries detectBoundaries
\* returns or manualBoundaries carries, and any crossfade smaller than the
\* segment durations.
C24_ScheduledTimesNonNegative ==
    CrossfadeBelowSegments => ~NegativeTimeScheduled


\* a pass of the loop of renderLoopingTrack, of renderMusicTrack, that
\* placed a copy and went on
FocusPlaced ==
    prPc = "focusLoop" /\ prPc' = "focusLoop" /\ Len(sched') = Len(sched) + 1
MusicPlaced ==
    prPc = "musicLoop" /\ prPc' = "musicLoop" /\ Len(sched') = Len(sched) + 1

FocusPlacementStep ==
    FocusPlaced =>
        IF RLt(Cf, Duration(BufferOf(focus)))
        THEN /\ RLt(cur, cur')
             /\ RSub(cur', cur) = RSub(Duration(BufferOf(focus)), Cf)
        ELSE RLe(cur', cur)

MusicPlacementStep ==
    MusicPlaced =>
        IF RLt(Cf, ELoopDur(bounds, PlaybackRate))
        THEN /\ RLt(cur, cur')
             /\ \/ RSub(cur', cur) = RSub(ELoopDur(bounds, PlaybackRate), Cf)
                \/ cur' = LoopEndTime(musicBuffer, bounds, TotalDur, PlaybackRate)
        ELSE RLe(cur', cur)

\* C29: with a crossfade smaller than the foundation duration and than the
\* music loop-segment duration, every pass of the two scheduling loops
\* moves the placement time forward, by the fixed step duration -
\* crossfade or to the loop end time, so that each loop ends after
\* finitely many placements; with a crossfade not smaller than the looped
\* segment the placement time does not advance.
C29_PlacementAdvancesIffCrossfadeSmaller ==
    [][FocusPlacementStep /\ MusicPlacementStep]_vars

\* a returned render in which both loops made several placements
C29_Witness ==
    /\ prPc = "done"
    /\ Cardinality({k \in 1..Len(sched) : sched[k].track = "focus"}) >= 3
    /\ Cardinality(LoopNodes) >= 3
    /\ RLt(Cf, Duration(BufferOf(focus)))
    /\ RLt(Cf, ELoopDur(bounds, PlaybackRate))

\* the foundation loop still placing copies at time 0: the crossfade
\* equals the foundation duration
C29_WitnessStalled ==
    /\ prPc = "focusLoop"
    /\ Len(sched) = MaxNodes
    /\ cur = RZero
    /\ Cf = Duration(BufferOf(focus))

\* the music loop placing repetitions at the same time again: the
\* crossfade equals the loop segment's duration
C29_WitnessMusicStalled ==
    /\ prPc = "musicLoop"
    /\ Cardinality(LoopNodes) >= 2
    /\ Cf = ELoopDur(bounds, PlaybackRate)
    /\ cur = EIntroDur(bounds, PlaybackRate)

---------------------------------------------------------------------------
(* Claims about the medians and the Tukey filter of the tempo estimators   *)
(* (checked under SpecBpm and SpecPeak)                                    *)

\* the lower of the two middle elements of a sorted sequence of even length
LowerMiddle(sorted) == sorted[Len(sorted) \div 2]

\* the kept inter-peak differences of pass h over the click track, sorted
KeptDiffs(h) ==
    SortDiffs(DiffsOf(PeaksOf(ClickData(pkSig),
                              HopSize(pkSig.sampleRate, HopSizesMs[h]),
                              PeakStep(pkSig.length)),
                      pkSig.sampleRate))

\* the median of an aggregated estimate is the lower middle element of an
\* even number of filtered candidates
MedianBpmIsLowerMiddle ==
    (bpmPc = "done" /\ bpmInfo.filteredPasses # <<>>) =>
        LET filtered == bpmInfo.filteredPasses
            n == Len(filtered)
        IN  /\ bpmInfo.raw = Round1(filtered[(n \div 2) + 1])
            /\ n % 2 = 0 => bpmInfo.raw = Round1(LowerMiddle(filtered))

\* a pass of the peak-clustering estimator that kept an even number of
\* differences returns 60 / the lower middle one
MedianDiffIsLowerMiddle ==
    \A h \in 1..Len(pkTempos) :
        (pkTempos[h] # RZero /\ Len(KeptDiffs(h)) % 2 = 0) =>
            pkTempos[h] = Rat(60 * pkSig.sampleRate, LowerMiddle(KeptDiffs(h)))

\* C25: medianBpm is the element at index floor(n/2) of the sorted
\* filtered list of n candidates, for even n the lower of the two middle
\* elements; the peak-clustering estimator likewise uses the lower median
\* of the kept inter-peak differences.
C25_LowerMedians == MedianBpmIsLowerMiddle /\ MedianDiffIsLowerMiddle


\* s is a subsequence of t (both sorted ascending, with repetitions)
RECURSIVE IsSubSeq(_, _)
IsSubSeq(s, t) ==
    IF s = <<>> THEN TRUE
    ELSE IF t = <<>> THEN FALSE
    ELSE IF Head(s) = Head(t) THEN IsSubSeq(Tail(s), Tail(t))
    ELSE IsSubSeq(s, Tail(t))

IsSortedAsc(s) == \A i \in 1..(Len(s) - 1) : RLe(s[i], s[i + 1])
ElementsOf(s) == {s[i] : i \in 1..Len(s)}

\* an aggregated estimate: at least one raw candidate was accepted
Aggregated == bpmPc = "done" /\ bpmInfo.allPasses # <<>>

\* the filtered list is a non-empty sorted sub-list of allPasses that
\* contains Q1 and Q3, and the median is one of the raw candidates
FilteredWellFormed ==
    LET all == bpmInfo.allPasses
        filtered == bpmInfo.filteredPasses
        n == Len(all)
    IN  /\ filtered # <<>>
        /\ IsSortedAsc(all) /\ IsSortedAsc(filtered)
        /\ IsSubSeq(filtered, all)
        /\ all[(n \div 4) + 1] \in ElementsOf(filtered)
        /\ all[((n * 3) \div 4) + 1] \in ElementsOf(filtered)
        /\ ElementsOf(all) = ElementsOf(bpmSupplied)
        /\ bpmInfo.raw \in {Round1(x) : x \in ElementsOf(bpmSupplied)}

\* C26 as stated: for every non-empty raw-candidate list the Tukey-fence
\* filter yields a non-empty sorted sub-list of allPasses containing Q1
\* and Q3, medianBpm is one of the raw candidates, and raw lies in the
\* open interval (40,300).
C26_FilteredWellFormedRawOpen ==
    Aggregated =>
        /\ FilteredWellFormed
        /\ RLt(RInt(40), bpmInfo.raw) /\ RLt(bpmInfo.raw, RInt(300))

\* C26, amended: the same, with raw in the closed interval [40,300].
C26_FilteredWellFormedRawClosed ==
    Aggregated =>
        /\ FilteredWellFormed
        /\ RLe(RInt(40), bpmInfo.raw) /\ RLe(bpmInfo.raw, RInt(300))

\* an aggregation whose Tukey fence removed an outlier, and one whose raw
\* value is the rounded bound 300
C26_Witness ==
    /\ Aggregated
    /\ Len(bpmInfo.filteredPasses) < Len(bpmInfo.allPasses)
    /\ Len(bpmInfo.filteredPasses) >= 4

C26_WitnessBound ==
    /\ Aggregated
    /\ bpmInfo.raw = RInt(300)


---------------------------------------------------------------------------
(* Claims about analyzeBpm in accurate mode (checked under SpecAuto)       *)

\* C27: in accurate mode analyzeBpm never returns the fallback estimate:
\* the autocorrelation estimator returns 6000/bestLag with bestLag in
\* 30..100 (60 when every lag scores 0, as for silence), so exactly one
\* candidate, in [60,200], is accepted, and the result has confidence
\* 'high', stdDev 0 and raw = corrected.
C27_AccurateNeverFallsBack ==
    /\ acPc \in {"lags", "aggregate", "done"} => acBestLag \in 30..100
    /\ (acPc \in {"aggregate", "done"} /\ acMaxAuto = 0) => acBestLag = 60
    /\ acPc = "done" =>
          /\ acInfo.algorithmsUsed = <<"Full-Track Autocorrelation">>
          /\ acInfo.allPasses = <<Rat(6000, acBestLag)>>
          /\ RLe(RInt(60), acInfo.allPasses[1]) /\ RLe(acInfo.allPasses[1], RInt(200))
          /\ acInfo.confidence = "high"
          /\ acInfo.stdDev = RZero
          /\ acInfo.raw = acInfo.corrected
          /\ acInfo.modeUsed = "accurate"

\* a click every 0.3 s: bestLag 30, the estimate 200 BPM at the edge of
\* the octave range
C27_Witness ==
    /\ acPc = "done"
    /\ acBestLag = 30
    /\ acInfo.raw = RInt(200)

\* silence: every lag scores 0 and bestLag keeps its initial value
C27_WitnessSilence ==
    /\ acPc = "done"
    /\ acSig.amp = 0
    /\ acMaxAuto = 0
    /\ acInfo.raw = RInt(100)


---------------------------------------------------------------------------
(* Claims about the grain loop of timeStretch (checked under SpecGrains)   *)

\* the indices of the last pass lie inside the buffers
GrainIndicesInBounds ==
    /\ glRead[1] >= 0 /\ glRead[2] < glIn.length
    /\ glWrite[1] >= 0 /\ glWrite[2] < StretchedLength(glIn.length, glIn.rate)

\* a pass of the while loop moves the output position forward
GrainPassAdvances == glPasses' = glPasses + 1 => glOutPos' > glOutPos

\* the while loop is not still running after MaxGrainPasses passes
GrainLoopEnds ==
    ~(glPc = "grains" /\ glPasses >= MaxGrainPasses /\ GrainLoopContinues(glOutPos, glIn))

\* the grain has at least two samples, so that outputStride is at least 1
\* (sample rates from 34 Hz up)
GrainHasStride == GrainSize(glIn.sampleRate) >= 2

---------------------------------------------------------------------------
(* Claims about the App's tempo re-analysis (checked under SpecApp)        *)

\* no decode and no re-analysis is in flight
AppQuiescent == apPending = <<>>

\* C30: under any interleaving of detection-mode switches, music uploads
\* and completions of the re-analyses, once no analysis is in flight the
\* tempo estimate stored on the music track was computed in the currently
\* selected detection mode and from the currently loaded music buffer.
C30_EstimateMatchesModeAndBuffer ==
    (AppQuiescent /\ apTrack.present /\ apTrack.hasBpmInfo) =>
        /\ apTrack.modeUsed = apMode
        /\ apTrack.analysedFile = apTrack.file

=============================================================================
